---- MODULE Spec2Model ----
(***************************************************************************)
(* Intent resolution and temporal normalisation of the Microsoft To-Do     *)
(* Telegram bot.  Two implementations of the text pipeline live in the     *)
(* repository and both are modelled: the function-calling mixin            *)
(* (src/ai/intent.py, IntentMixin) and the JSON-prompt service             *)
(* (src/ai_service.py, AIService).  The variable impl says which one a run *)
(* executes.                                                               *)
(*                                                                         *)
(* Python values are tagged records, so that None, strings and integers    *)
(* can sit under the same key of a dict: S(s) a string, I(n) an integer,   *)
(* Null is None.  A dict is a function from key strings to tagged values;  *)
(* an absent key is a key outside its DOMAIN.  A confidence is an integer  *)
(* number of hundredths.                                                   *)
(***************************************************************************)
EXTENDS Integers, Sequences, FiniteSets, TLC

VARIABLES
    impl,            \* "IntentMixin" | "AIService"
    now,             \* datetime.now() of the run, in minutes since 2026-03-01 00:00
    text,            \* the user's text, a sequence of characters
    existing_todos,  \* the listing handed to analyze_text_for_todos
    pc,              \* position of the run
    attempt,         \* loop variable of _analyze_intent
    calls,           \* remote calls issued by _analyze_intent
    sleeps,          \* asyncio.sleep(1) calls of _analyze_intent
    last,            \* how the latest extraction attempt ended
    intent_analysis, \* the draft _analyze_intent returned
    match,           \* what happened in _resolve_task_id_and_details
    match_result,    \* the payload of the second call, when there was one
    returned,        \* the draft analyze_text_for_todos returned
    handler,         \* which execute_action runs: "message" | "telegram_bot"
    search_results,  \* what search_todos_by_title answered, when asked
    store_ops,       \* task-store calls of execute_action, in order
    calc_days,       \* the day offsets calculate_relative_time was called with
    gate,            \* what the decomposition gate of handle_text decided
    reply,           \* what handle_text answered the user
    remote,          \* the logical remote calls of the run, in order
    executions,      \* how often handle_text called execute_action
    patches,         \* bodies of the PATCH requests update_todo sent, in order
    draft_in,        \* a draft handed to the repairer on its own
    draft_out,       \* what the repairer made of draft_in
    draft_again,     \* what the repairer made of draft_out, applied once more
    auto_adjust,     \* the auto_adjust argument of normalize_due_date
    calc_args,       \* arguments of a calculate_relative_time call on its own
    calc_result,     \* what that call returned
    dec_payload,     \* arguments of the tool call decompose_task received
    total_days,      \* the total_days argument of decompose_task
    dec_result,      \* the subtasks after the accumulation of their offsets
    content,         \* the text handed to _robust_json_parse
    tried,           \* the strategies _robust_json_parse has tried, in order
    parsed,          \* what _robust_json_parse returned
    store,           \* ids of the tasks that exist in the task store
    rpc,             \* position of each concurrent handle_text run
    listing,         \* what list_todos answered each run
    draft,           \* the draft the analysis returned to each run
    outcome,         \* what the task store answered each run's execute_action
    pending_decompose, \* self.pending_decompose: user id -> stored decomposition
    callbacks,       \* the decomposition callbacks in flight: kind, position, locals
    created,         \* the create_todo calls of the callbacks, in order
    blacklist,       \* AuthManager.blacklist
    whitelist,       \* AuthManager.whitelist
    user_requests,   \* AuthManager.user_requests: user id -> admitted timestamps
    clock,           \* time.time(), in seconds
    admitted,        \* every timestamp check_rate_limit recorded for a user, in order
    effects,         \* what the handler of the latest update did
    credentials,     \* access_token, refresh_token, client_id, client_secret of the client
    request,         \* the _make_request call: arguments, position, refreshes, result
    http,            \* the HTTP exchanges of the call, in order
    pending_auth,    \* self.pending_auth: user id -> authorization session
    timers,          \* the scheduled cleanups: job or task, user id, seconds left
    opened,          \* how many authorization sessions were opened
    diverted,        \* where handle_text sent the latest text
    caption,         \* the caption argument of analyze_image_for_todos
    image,           \* the analyze_image_for_todos call: position, counters, locals, result
    item_run         \* execute_action on a draft with items: draft, position, calls, result

pipelineVars == <<impl, text, existing_todos, attempt, calls, sleeps, last,
                  intent_analysis, match, match_result, returned, handler,
                  search_results, store_ops, calc_days, gate, reply, remote,
                  executions, patches>>

repairVars == <<draft_in, draft_out, draft_again, auto_adjust>>

calcVars == <<calc_args, calc_result>>

decVars == <<dec_payload, total_days, dec_result>>

parseVars == <<content, tried, parsed>>

runVars == <<store, rpc, listing, draft, outcome>>

callbackVars == <<pending_decompose, callbacks, created>>

authVars == <<blacklist, whitelist, user_requests, clock, admitted, effects>>

requestVars == <<credentials, request, http>>

sessionVars == <<pending_auth, timers, opened, diverted>>

imageVars == <<caption, image>>

lateVars == <<authVars, requestVars, sessionVars, imageVars, item_run>>

moreVars == <<parseVars, runVars, callbackVars, lateVars>>

sideVars == <<repairVars, calcVars, decVars, moreVars>>

vars == <<now, pc, pipelineVars, sideVars>>

----------------------------------------------------------------------------
(* Python values *)

S(s) == [s |-> s]
I(n) == [i |-> n]
Null == [null |-> TRUE]

B(b) == [b |-> b]
D(d) == [d |-> d]
\* a string whose characters matter (a title, the user's text): a sequence
T(t) == [t |-> t]

IsInt(v) == DOMAIN v = {"i"}
IsStr(v) == DOMAIN v = {"s"} \/ DOMAIN v = {"t"}
IsDict(v) == DOMAIN v = {"d"}

\* bool(v) of Python for the values used here
Truthy(v) ==
    /\ v # Null
    /\ v # S("")
    /\ v # T(<<>>)
    /\ v # I(0)
    /\ v # B(FALSE)
    /\ v # D([x \in {} |-> [null |-> TRUE]])

NoDict == [x \in {} |-> [null |-> TRUE]]

\* d.get(k)
Get(d, k) == IF k \in DOMAIN d THEN d[k] ELSE Null

\* d.get(k, default)
GetOr(d, k, default) == IF k \in DOMAIN d THEN d[k] ELSE default

\* d.update(r) on a copy of d
DictUpdate(d, r) ==
    [k \in (DOMAIN d) \cup (DOMAIN r) |-> IF k \in DOMAIN r THEN r[k] ELSE d[k]]

\* d[k] = v
DictSet(d, k, v) == DictUpdate(d, k :> v)

----------------------------------------------------------------------------
(* Dates and times.  Instants are minutes since 2026-03-01 00:00; the runs *)
(* stay inside March 2026, so a date is its day of the month.              *)

MinutesPerDay == 24 * 60

Digit == <<"0", "1", "2", "3", "4", "5", "6", "7", "8", "9">>

D2(n) == Digit[(n \div 10) + 1] \o Digit[(n % 10) + 1]

DayOf(t) == (t \div MinutesPerDay) + 1
MinuteOf(t) == t % MinutesPerDay
At(day, minute) == (day - 1) * MinutesPerDay + minute

\* strftime('%Y-%m-%d')
DateStr(day) == "2026-03-" \o D2(day)

\* strftime('%H:%M') of a minute of the day
TimeStr(m) == D2(m \div 60) \o ":" \o D2(m % 60)

DateOfInstant(t) == DateStr(DayOf(t))
TimeOfInstant(t) == TimeStr(MinuteOf(t))

ParseFail == 0 - 1

\* datetime.strptime(v, '%Y-%m-%d'): the day, or ParseFail for ValueError
ParseDate(v) ==
    IF DOMAIN v = {"s"} /\ \E d \in 1..31 : DateStr(d) = v.s
    THEN CHOOSE d \in 1..31 : DateStr(d) = v.s
    ELSE ParseFail

TimeTable == [m \in 0..(MinutesPerDay - 1) |-> TimeStr(m)]

\* the '%H:%M' part of strptime: the minute of the day, or ParseFail
ParseTime(v) ==
    IF DOMAIN v = {"s"} /\ \E m \in DOMAIN TimeTable : TimeTable[m] = v.s
    THEN CHOOSE m \in DOMAIN TimeTable : TimeTable[m] = v.s
    ELSE ParseFail

----------------------------------------------------------------------------
(* Temporal calculator.  utils.datetime_helper.calculate_relative_time is  *)
(* imported by src/ai/intent.py and src/ai/decompose.py but its body is    *)
(* not among the sources; it is modelled from section 4.1 of the           *)
(* specification: the date is now's date plus the day offset, the time is  *)
(* hours:minutes of that day, and there is no error path (an offset that   *)
(* is None counts as 0).                                                   *)

IntOf(v) == IF IsInt(v) THEN v.i ELSE 0

\* a calculator that takes the hours and minutes as an offset from now
calculate_from_now(n, days, hours, minutes) ==
    LET t == n + IntOf(days) * MinutesPerDay + IntOf(hours) * 60 + IntOf(minutes)
    IN  << DateStr(DayOf(t)), TimeStr(MinuteOf(t)) >>

calculate_relative_time(n, days, hours, minutes) ==
    << DateStr(DayOf(n) + IntOf(days)),
       TimeStr(IntOf(hours) * 60 + IntOf(minutes)) >>

\* src/ai/intent.py 76-94 and 157-175: relative offsets become date strings
RelativeDue(result, n) ==
    IF Get(result, "due_in_days") # Null
    THEN DictSet(result, "due_date",
                 S(calculate_relative_time(n, result["due_in_days"], I(0), I(0))[1]))
    ELSE result

\* a conversion that acts only when the day offset is given
RelativeReminderNeedsDays(result, n) ==
    IF Get(result, "reminder_in_days") # Null
    THEN LET dt == calculate_relative_time(n,
                       GetOr(result, "reminder_in_days", I(0)),
                       GetOr(result, "reminder_in_hours", I(0)),
                       GetOr(result, "reminder_in_minutes", I(0)))
         IN  DictUpdate(result, [reminder_date |-> S(dt[1]), reminder_time |-> S(dt[2])])
    ELSE result

RelativeReminder(result, n) ==
    IF \/ Get(result, "reminder_in_days") # Null
       \/ Get(result, "reminder_in_hours") # Null
       \/ Get(result, "reminder_in_minutes") # Null
    THEN LET dt == calculate_relative_time(n,
                       GetOr(result, "reminder_in_days", I(0)),
                       GetOr(result, "reminder_in_hours", I(0)),
                       GetOr(result, "reminder_in_minutes", I(0)))
         IN  DictUpdate(result, [reminder_date |-> S(dt[1]), reminder_time |-> S(dt[2])])
    ELSE result

ApplyRelativeTimes(result, n) == RelativeReminder(RelativeDue(result, n), n)

\* the days arguments of the calls the conversion of result makes
CalcDays(im, result) ==
    IF im # "IntentMixin" THEN {}
    ELSE (IF Get(result, "due_in_days") # Null
          THEN {IntOf(result["due_in_days"])} ELSE {})
         \cup
         (IF \/ Get(result, "reminder_in_days") # Null
             \/ Get(result, "reminder_in_hours") # Null
             \/ Get(result, "reminder_in_minutes") # Null
          THEN {IntOf(GetOr(result, "reminder_in_days", I(0)))} ELSE {})

----------------------------------------------------------------------------
(* Invariant repairer: AIService._validate_and_fix_dates *)

\* strptime on a truthy value that is no string is a TypeError, which the
\* function does not catch
ValidateRaises(result) ==
    \/ Truthy(Get(result, "due_date")) /\ ~IsStr(result["due_date"])
    \/ Truthy(Get(result, "reminder_date")) /\ ~IsStr(result["reminder_date"])

\* a repair that validates the due date but leaves a past one in place
FixDueDateKeepingPast(result, n) ==
    IF ~Truthy(Get(result, "due_date")) THEN result
    ELSE IF ParseDate(result["due_date"]) = ParseFail
         THEN DictSet(result, "due_date", Null)
         ELSE result

FixDueDate(result, n) ==
    IF ~Truthy(Get(result, "due_date")) THEN result
    ELSE LET due == ParseDate(result["due_date"]) IN
         IF due = ParseFail THEN DictSet(result, "due_date", Null)
         ELSE IF due < DayOf(n)
              THEN DictSet(result, "due_date", S(DateOfInstant(n + MinutesPerDay)))
              ELSE result

\* a repair of a past reminder that moves the time and forgets the date
FixReminderTimeOnly(result, n) ==
    IF ~Truthy(Get(result, "reminder_date")) THEN result
    ELSE LET rday == ParseDate(result["reminder_date"])
             m == ParseTime(GetOr(result, "reminder_time", S("09:00")))
         IN  IF rday # ParseFail /\ m # ParseFail /\ At(rday, m) <= n
             THEN DictSet(result, "reminder_time", S(TimeOfInstant(n + 30)))
             ELSE result

FixReminder(result, n) ==
    IF ~Truthy(Get(result, "reminder_date")) THEN result
    ELSE LET rday == ParseDate(result["reminder_date"]) IN
         IF rday = ParseFail
         THEN DictUpdate(result, [reminder_date |-> Null, reminder_time |-> Null])
         ELSE LET m == ParseTime(GetOr(result, "reminder_time", S("09:00"))) IN
              IF m # ParseFail
              THEN IF At(rday, m) <= n
                   THEN DictUpdate(result,
                            [reminder_date |-> S(DateOfInstant(n + 30)),
                             reminder_time |-> S(TimeOfInstant(n + 30))])
                   ELSE result
              ELSE IF rday < DayOf(n)
                   THEN DictUpdate(result,
                            [reminder_date |-> S(DateOfInstant(n)),
                             reminder_time |-> S(TimeOfInstant(n + 60))])
                   ELSE IF rday = DayOf(n)
                        THEN DictSet(result, "reminder_time", S(TimeOfInstant(n + 30)))
                        ELSE result

_validate_and_fix_dates(result, n) == FixReminder(FixDueDate(result, n), n)

----------------------------------------------------------------------------
(* Normalisers of utils/datetime_helper.py, as analyze_image applies them *)

\* validate_date and validate_time: the parsed value, or ParseFail for None
validate_date(date_str) == IF ~Truthy(date_str) THEN ParseFail ELSE ParseDate(date_str)

validate_time(time_str) == IF ~Truthy(time_str) THEN ParseFail ELSE ParseTime(time_str)

\* the second definition of the name in the file, which is the one in force
normalize_due_date(due_date, n, adjust) ==
    LET date_obj == validate_date(due_date) IN
    IF date_obj = ParseFail THEN Null
    ELSE IF adjust /\ date_obj < DayOf(n) THEN S(DateOfInstant(n + MinutesPerDay))
    ELSE due_date

\* Null, or the date and time of the DateTimeInfo
normalize_reminder(reminder_date, reminder_time, n, adjust) ==
    LET date_obj == validate_date(reminder_date)
        time_obj == validate_time(reminder_time)
    IN  IF date_obj = ParseFail \/ time_obj = ParseFail THEN Null
        ELSE IF adjust /\ At(date_obj, time_obj) <= n
             THEN [date |-> S(DateOfInstant(n + 30)), time |-> S(TimeOfInstant(n + 30))]
             ELSE [date |-> reminder_date, time |-> reminder_time]

\* strptime on a truthy value that is no string is a TypeError
NormalizeRaises(result) ==
    \/ Truthy(Get(result, "due_date")) /\ ~IsStr(result["due_date"])
    \/ Truthy(Get(result, "reminder_date")) /\ ~IsStr(result["reminder_date"])
    \/ /\ Truthy(Get(result, "reminder_date"))
       /\ Truthy(GetOr(result, "reminder_time", S("09:00")))
       /\ ~IsStr(GetOr(result, "reminder_time", S("09:00")))

NormalizeDueOf(result, n, adjust) ==
    IF Truthy(Get(result, "due_date"))
    THEN DictSet(result, "due_date", normalize_due_date(result["due_date"], n, adjust))
    ELSE result

NormalizeReminderOf(result, n, adjust) ==
    IF Truthy(Get(result, "reminder_date"))
    THEN LET reminder_info == normalize_reminder(result["reminder_date"],
                                  GetOr(result, "reminder_time", S("09:00")), n, adjust)
         IN  IF reminder_info # Null
             THEN DictUpdate(result, [reminder_date |-> reminder_info.date,
                                      reminder_time |-> reminder_info.time])
             ELSE DictUpdate(result, [reminder_date |-> Null, reminder_time |-> Null])
    ELSE result

NormalizeDraft(result, n, adjust) ==
    NormalizeReminderOf(NormalizeDueOf(result, n, adjust), n, adjust)

----------------------------------------------------------------------------
(* Inputs of a run *)

MaxTextLen == 31

max_retries == 2
TitleLimit == 30
CandidateLimit == 10
TitleThreshold == 15
ConfidenceThreshold == 70

Today == 10

NowValues == { At(Today, 10 * 60), At(Today, 23 * 60 + 40) }

Gym == <<"g", "y", "m">>
Run == <<"r", "u", "n">>

\* a text that holds the first term of the complex-task lexicon
Project == <<"u51c6", "u5907", "X">>

Texts == { Gym, Project, [i \in 1..MaxTextLen |-> "x"] }

Actions == {"CREATE", "UPDATE", "COMPLETE", "DELETE", "LIST", "SEARCH"}
MutationActions == {"UPDATE", "COMPLETE", "DELETE"}

\* dicts with the key k bound to one of vals, or without it
Opt(k, vals) == {NoDict} \cup { k :> v : v \in vals }
Cross(A, C) == { a @@ c : a \in A, c \in C }

\* entries of the task listing
GoodTodo ==
    [id |-> S("t1"), title |-> T(Gym),
     dueDateTime |-> D([dateTime |-> S("2026-04-01T00:00:00"), timeZone |-> S("UTC")])]
DoneTodo == [id |-> S("t2"), title |-> T(Run), completed |-> B(TRUE)]
NoIdTodo == [title |-> T(Gym)]
NullStampTodo == [id |-> S("t3"), title |-> T(Gym), dueDateTime |-> D([dateTime |-> Null])]

\* a listing with one open task more than the prompt of get_task_match_tools takes
ManyTodos == [i \in 1..(CandidateLimit + 1) |-> [id |-> S("m" \o D2(i)), title |-> T(Gym)]]

Listings ==
    { <<>>, <<DoneTodo>>, <<GoodTodo, DoneTodo>>, <<NoIdTodo>>, <<NullStampTodo>>, ManyTodos }

\* what the model may answer to the extraction call
RoutingPayloads ==
    Cross(Opt("action", { S(a) : a \in Actions \cup {"QUERY"} }),
          Cross({ "title" :> T(Gym) }, Opt("todo_id", { S(""), S("t1") })))
    \cup { [action |-> S("UPDATE"), title |-> T(Gym), todo_id |-> Null],
           [action |-> S("DELETE"), title |-> T(<<>>)],
           [action |-> S("CREATE"), title |-> Null],
           [action |-> S("CREATE"), title |-> T([i \in 1..TitleThreshold |-> "x"]),
            confidence |-> I(ConfidenceThreshold - 1)],
           [action |-> S("CREATE"), title |-> T([i \in 1..(TitleThreshold + 1) |-> "x"]),
            confidence |-> I(ConfidenceThreshold - 1)],
           [action |-> S("CREATE"), title |-> T([i \in 1..(TitleThreshold + 1) |-> "x"]),
            confidence |-> I(ConfidenceThreshold)],
           [action |-> S("COMPLETE"), title |-> T(Gym), search_query |-> T(<<>>)] }

DatedActions == { [action |-> S(a), title |-> T(Gym), confidence |-> I(90)] : a \in {"CREATE", "UPDATE"} }

RelativePayloads ==
    Cross(DatedActions,
          { [due_in_days |-> Null],
            [due_in_days |-> I(0)],
            [due_in_days |-> I(2), reminder_in_days |-> I(1), reminder_in_hours |-> I(9),
             reminder_in_minutes |-> I(30)],
            [reminder_in_days |-> I(0), reminder_in_hours |-> I(8)],
            [reminder_in_hours |-> I(14)],
            [due_date |-> S(DateStr(Today + 1))],
            [due_date |-> S(DateStr(Today - 1))],
            [due_in_days |-> I(0 - 1)] })

AbsolutePayloads ==
    Cross(DatedActions,
          { [due_date |-> Null],
            [due_date |-> S(DateStr(Today - 1))],
            [due_date |-> S(DateStr(Today)), reminder_date |-> S(DateStr(Today)),
             reminder_time |-> S("08:00")],
            [due_date |-> S("someday")],
            [reminder_date |-> S(DateStr(Today)), reminder_time |-> S("23:50")],
            [reminder_date |-> S(DateStr(Today)), reminder_time |-> Null],
            [reminder_date |-> S(DateStr(Today - 1)), reminder_time |-> S("soon")],
            [reminder_date |-> S(DateStr(Today + 1)), reminder_time |-> S("soon")],
            [reminder_date |-> S("someday"), reminder_time |-> S("08:00")],
            [reminder_date |-> I(20260310)],
            [reminder_time |-> S("08:00")] })

ExtractionPayloads(im) ==
    {NoDict} \cup RoutingPayloads
        \cup (IF im = "IntentMixin" THEN RelativePayloads ELSE AbsolutePayloads)

\* what the model may answer to the disambiguation call
MatchPayloads(im) ==
    {NoDict, [title |-> T(Run)]} \cup
    Cross({ [todo_id |-> S("t1"), confidence |-> I(80)] },
          IF im = "IntentMixin"
          THEN { NoDict,
                 [title |-> Null],
                 [title |-> T(Run), due_in_days |-> Null],
                 [title |-> Null, due_in_days |-> Null, reminder_in_days |-> Null,
                  reminder_in_hours |-> I(14), reminder_in_minutes |-> Null],
                 [due_in_days |-> I(1), reminder_in_days |-> Null,
                  reminder_in_hours |-> Null, reminder_in_minutes |-> Null],
                 [reminder_in_days |-> I(0), reminder_in_hours |-> I(8)],
                 [action |-> S("CREATE")] }
          ELSE { NoDict,
                 [title |-> Null],
                 [title |-> T(Run), due_date |-> Null],
                 [title |-> Null, due_date |-> Null, reminder_date |-> Null,
                  reminder_time |-> S("14:00")],
                 [due_date |-> S(DateStr(Today - 1)), reminder_date |-> Null,
                  reminder_time |-> Null],
                 [due_date |-> I(20260401)],
                 [reminder_date |-> S(DateStr(Today)), reminder_time |-> S("08:00")] })

----------------------------------------------------------------------------
(* Structured extraction: _analyze_intent *)

Min(a, b) == IF a < b THEN a ELSE b

\* text[:30]
Prefix(t, n) == SubSeq(t, 1, Min(Len(t), n))

\* a fallback that forgets the [:30]
FallbackUntruncated(im, t) ==
    IF im = "IntentMixin"
    THEN [action |-> S("CREATE"), title |-> T(t), confidence |-> I(0),
          reasoning |-> S("fallback")]
    ELSE [action |-> S("CREATE"), title |-> T(t), confidence |-> I(0)]

\* the draft returned when the retry loop is exhausted
Fallback(im, t) ==
    IF im = "IntentMixin"
    THEN [action |-> S("CREATE"), title |-> T(Prefix(t, TitleLimit)),
          confidence |-> I(0), reasoning |-> S("fallback")]
    ELSE [action |-> S("CREATE"), title |-> T(Prefix(t, TitleLimit)),
          confidence |-> I(0)]

\* `if message.tool_calls:` / `if result:`: is there a payload to return
HasPayload(im, p) == IF im = "IntentMixin" THEN TRUE ELSE p # NoDict

\* the body of the try block raises on this payload
ProcessingRaises(im, p) == IF im = "IntentMixin" THEN FALSE ELSE ValidateRaises(p)

\* what the attempt returns for the payload p
ProcessPayload(im, p, n) ==
    IF im = "IntentMixin" THEN ApplyRelativeTimes(p, n) ELSE _validate_and_fix_dates(p, n)

NoResult == [none |-> TRUE]

\* _robust_json_parse has not been called
ParseIdle ==
    /\ content = NoResult
    /\ tried = <<>>
    /\ parsed = NoResult

\* no handle_text run has been started next to the run of the pipeline
RunsIdle ==
    /\ store = {}
    /\ rpc = <<>>
    /\ listing = <<>>
    /\ draft = <<>>
    /\ outcome = <<>>

\* no decomposition is stored and no callback has been delivered
CallbacksIdle ==
    /\ pending_decompose = NoDict
    /\ callbacks = <<>>
    /\ created = <<>>

\* the AuthManager as constructed, and no update handled
AuthIdle ==
    /\ blacklist = {}
    /\ whitelist = {}
    /\ user_requests = NoDict
    /\ clock = 0
    /\ admitted = <<>>
    /\ effects = NoResult

\* no _make_request call has been started
RequestIdle ==
    /\ credentials = NoResult
    /\ request = NoResult
    /\ http = <<>>

\* no authorization session was opened
SessionIdle ==
    /\ pending_auth = NoDict
    /\ timers = {}
    /\ opened = 0
    /\ diverted = "none"

\* analyze_image_for_todos has not been called
ImageIdle ==
    /\ caption = Null
    /\ image = NoResult

\* execute_action has not been called on a draft with items
ItemsIdle == item_run = NoResult

LateIdle == AuthIdle /\ RequestIdle /\ SessionIdle /\ ImageIdle /\ ItemsIdle

MoreIdle == ParseIdle /\ RunsIdle /\ CallbacksIdle /\ LateIdle

Init ==
    /\ impl \in {"IntentMixin", "AIService"}
    /\ now \in NowValues
    /\ text \in Texts
    /\ existing_todos \in Listings
    /\ pc = "RECEIVED"
    /\ attempt = 0
    /\ calls = 0
    /\ sleeps = 0
    /\ last = "none"
    /\ intent_analysis = NoResult
    /\ match = "none"
    /\ match_result = NoResult
    /\ returned = NoResult
    /\ handler = "none"
    /\ search_results = <<>>
    /\ store_ops = <<>>
    /\ calc_days = {}
    /\ gate = "none"
    /\ reply = "none"
    /\ remote = <<>>
    /\ executions = 0
    /\ patches = <<>>
    /\ calc_args = NoResult
    /\ calc_result = NoResult
    /\ dec_payload = NoResult
    /\ total_days = Null
    /\ dec_result = NoResult
    /\ draft_in = NoResult
    /\ draft_out = NoResult
    /\ draft_again = NoResult
    /\ auto_adjust = FALSE
    /\ MoreIdle

\* the loop leaves through its end: the fallback draft is returned
Exhausted ==
    /\ intent_analysis' = Fallback(impl, text)
    /\ pc' = "EXTRACTED"
    /\ UNCHANGED attempt

\* one iteration whose call returns a payload that is processed and returned
AttemptPayload ==
    /\ pc = "RECEIVED"
    /\ remote' = (IF calls = 0 THEN <<"extraction">> ELSE remote)
    /\ \E p \in ExtractionPayloads(impl) :
          /\ HasPayload(impl, p)
          /\ ~ProcessingRaises(impl, p)
          /\ intent_analysis' = ProcessPayload(impl, p, now)
          /\ calc_days' = calc_days \cup CalcDays(impl, p)
    /\ calls' = calls + 1
    /\ last' = "payload"
    /\ pc' = "EXTRACTED"
    /\ UNCHANGED <<sideVars, impl, now, text, existing_todos, attempt, sleeps, match,
                   match_result, returned, handler, search_results, store_ops, gate, reply, executions, patches>>

\* one iteration that ends in the except branch: the call raised, the
\* arguments were no JSON, or the processing of the payload raised
AttemptException ==
    /\ pc = "RECEIVED"
    /\ remote' = (IF calls = 0 THEN <<"extraction">> ELSE remote)
    /\ calls' = calls + 1
    /\ last' = "exception"
    /\ IF attempt = max_retries
       THEN Exhausted /\ UNCHANGED sleeps
       ELSE /\ attempt' = attempt + 1
            /\ sleeps' = sleeps + 1
            /\ UNCHANGED <<pc, intent_analysis>>
    /\ UNCHANGED <<sideVars, impl, now, text, existing_todos, match, match_result,
                   returned, handler, search_results, store_ops, calc_days, gate, reply, executions, patches>>

\* an iteration without payload that does not count as an attempt
AttemptNoPayloadUncounted ==
    /\ pc = "RECEIVED"
    /\ remote' = (IF calls = 0 THEN <<"extraction">> ELSE remote)
    /\ calls <= max_retries + 1
    /\ calls' = calls + 1
    /\ last' = "nopayload"
    /\ UNCHANGED <<pc, intent_analysis, attempt>>
    /\ UNCHANGED <<sideVars, impl, now, text, existing_todos, sleeps, match, match_result,
                   returned, handler, search_results, store_ops, calc_days, gate, reply, executions, patches>>

\* one iteration whose response carries no payload: the loop goes on
AttemptNoPayload ==
    /\ pc = "RECEIVED"
    /\ remote' = (IF calls = 0 THEN <<"extraction">> ELSE remote)
    /\ calls' = calls + 1
    /\ last' = "nopayload"
    /\ IF attempt = max_retries
       THEN Exhausted
       ELSE /\ attempt' = attempt + 1
            /\ UNCHANGED <<pc, intent_analysis>>
    /\ UNCHANGED <<sideVars, impl, now, text, existing_todos, sleeps, match, match_result,
                   returned, handler, search_results, store_ops, calc_days, gate, reply, executions, patches>>

----------------------------------------------------------------------------
(* Orchestration: analyze_text_for_todos after the extraction *)

\* [t for t in (existing_todos or []) if not t.get('completed', False)]
NotCompleted(t) == ~Truthy(GetOr(t, "completed", B(FALSE)))
Candidates(todos) == SelectSeq(todos, NotCompleted)

\* the first `if`: the extraction draft is returned as it is
ReturnsDirectly(analysis) ==
    \/ Get(analysis, "action") \in { S("CREATE"), S("LIST"), S("SEARCH") }
    \/ Truthy(Get(analysis, "todo_id"))

\* a routing that forgets the todo_id test of the first `if`
NeedsMatchIgnoringId(analysis) ==
    Get(analysis, "action") \in { S(a) : a \in MutationActions }

\* the second `if` is reached and taken
NeedsMatch(analysis) ==
    /\ ~ReturnsDirectly(analysis)
    /\ Get(analysis, "action") \in { S(a) : a \in MutationActions }

Dispatch ==
    /\ pc = "EXTRACTED"
    /\ IF NeedsMatch(intent_analysis) /\ Candidates(existing_todos) # <<>>
       THEN /\ pc' = "DISAMBIGUATING"
            /\ UNCHANGED <<returned, match>>
       ELSE /\ pc' = "RESOLVED"
            /\ returned' = intent_analysis
            /\ match' = IF NeedsMatch(intent_analysis) THEN "nocandidates" ELSE "skipped"
    /\ UNCHANGED <<sideVars, impl, now, text, existing_todos, attempt, calls, sleeps, last,
                   intent_analysis, match_result, handler, search_results, store_ops,
                   calc_days, gate, reply, remote, executions, patches>>

----------------------------------------------------------------------------
(* Entity disambiguation: _resolve_task_id_and_details *)

\* dt_val[:10] of _fmt_task raises unless dt_val is a string
StampRaises(v) ==
    /\ Truthy(v)
    /\ IF IsDict(v) THEN ~IsStr(GetOr(v.d, "dateTime", S(""))) ELSE ~IsStr(v)

\* _fmt_task(t) of get_task_match_tools raises
FmtTaskRaises(t) ==
    \/ "id" \notin DOMAIN t
    \/ StampRaises(Get(t, "dueDateTime"))
    \/ StampRaises(Get(t, "reminderDateTime"))

\* the candidates that are written into the prompt of the second call:
\* candidates[:10] in get_task_match_tools, every candidate in ai_service.py
CandidatesSent(im, candidates) ==
    IF im = "IntentMixin" THEN Prefix(candidates, CandidateLimit) ELSE candidates

\* building the prompt of the second call raises; both implementations
\* build it before their try block
PromptRaises(im, candidates) ==
    LET listed == CandidatesSent(im, candidates) IN
    IF im = "IntentMixin"
    THEN \E i \in 1..Len(listed) : FmtTaskRaises(listed[i])
    ELSE \E i \in 1..Len(listed) : "id" \notin DOMAIN listed[i]

\* a merge that skips the fields the second call returned as null
MergeSkippingNulls(initial_analysis, result) ==
    [k \in (DOMAIN initial_analysis) \cup { f \in DOMAIN result : result[f] # Null } |->
        IF k \in DOMAIN result /\ result[k] # Null THEN result[k] ELSE initial_analysis[k]]

\* final_result = initial_analysis.copy(); final_result.update(result)
MergeMatch(initial_analysis, result) == DictUpdate(initial_analysis, result)

\* a failure path that guesses the first candidate instead of giving up
GuessFirstCandidate(initial_analysis, candidates) ==
    DictSet(initial_analysis, "todo_id", Get(candidates[1], "id"))

\* `return initial_analysis` of the else branch and of the except branch
UnresolvedDraft(initial_analysis, candidates) == initial_analysis

\* `if message.tool_calls:` / `if result:` of the second call
MatchHasPayload(im, m) == IF im = "IntentMixin" THEN TRUE ELSE m # NoDict

MatchProcessingRaises(im, initial_analysis, m) ==
    IF im = "IntentMixin" THEN FALSE
    ELSE ValidateRaises(MergeMatch(initial_analysis, m))

\* the draft returned when the second call answers the payload m
ResolvedDraft(im, initial_analysis, m, n) ==
    IF im = "IntentMixin"
    THEN ApplyRelativeTimes(MergeMatch(initial_analysis, m), n)
    ELSE _validate_and_fix_dates(MergeMatch(initial_analysis, m), n)

ResolveFrame ==
    UNCHANGED <<impl, now, text, existing_todos, attempt, calls, sleeps, last,
                intent_analysis, handler, search_results, store_ops, gate, reply,
                executions, patches, sideVars>>

\* the prompt cannot be built: the exception leaves analyze_text_for_todos
ResolvePromptRaises ==
    /\ pc = "DISAMBIGUATING"
    /\ PromptRaises(impl, Candidates(existing_todos))
    /\ pc' = "RAISED"
    /\ match' = "prompt_raised"
    /\ UNCHANGED <<returned, match_result, calc_days, remote>>
    /\ ResolveFrame

ResolveMerged ==
    /\ pc = "DISAMBIGUATING"
    /\ ~PromptRaises(impl, Candidates(existing_todos))
    /\ \E m \in MatchPayloads(impl) :
          /\ MatchHasPayload(impl, m)
          /\ ~MatchProcessingRaises(impl, intent_analysis, m)
          /\ match_result' = m
          /\ returned' = ResolvedDraft(impl, intent_analysis, m, now)
          /\ calc_days' = calc_days \cup CalcDays(impl, MergeMatch(intent_analysis, m))
    /\ match' = "merged"
    /\ remote' = Append(remote, "disambiguation")
    /\ pc' = "RESOLVED"
    /\ ResolveFrame

\* the second call raised, or its payload could not be processed
ResolveException ==
    /\ pc = "DISAMBIGUATING"
    /\ ~PromptRaises(impl, Candidates(existing_todos))
    /\ match' = "exception"
    /\ remote' = Append(remote, "disambiguation")
    /\ returned' = UnresolvedDraft(intent_analysis, Candidates(existing_todos))
    /\ pc' = "RESOLVED"
    /\ UNCHANGED <<match_result, calc_days>>
    /\ ResolveFrame

ResolveNoPayload ==
    /\ pc = "DISAMBIGUATING"
    /\ ~PromptRaises(impl, Candidates(existing_todos))
    /\ match' = "nopayload"
    /\ remote' = Append(remote, "disambiguation")
    /\ returned' = UnresolvedDraft(intent_analysis, Candidates(existing_todos))
    /\ pc' = "RESOLVED"
    /\ UNCHANGED <<match_result, calc_days>>
    /\ ResolveFrame

----------------------------------------------------------------------------
(* Execution of the returned draft: execute_action of handlers/message.py  *)
(* and of telegram_bot.py, up to its task-store calls                      *)

Call(op, args) == [op |-> op, args |-> args]

DraftId(analysis) == GetOr(analysis, "todo_id", S(""))

\* analysis.get("search_query", analysis.get("title", ""))
CompleteQuery(analysis) ==
    GetOr(analysis, "search_query", GetOr(analysis, "title", S("")))

\* the title execute_action hands to search_todos_by_title, when it does
SearchArg(analysis) ==
    LET a == GetOr(analysis, "action", S("QUERY")) IN
    IF a = S("UPDATE") THEN GetOr(analysis, "title", S(""))
    ELSE IF a = S("SEARCH") THEN GetOr(analysis, "search_query", S(""))
    ELSE CompleteQuery(analysis)

\* execute_action asks search_todos_by_title
Searches(analysis) ==
    LET a == GetOr(analysis, "action", S("QUERY")) IN
    \/ a = S("UPDATE") /\ ~Truthy(DraftId(analysis))
    \/ a \in {S("COMPLETE"), S("DELETE")}
         /\ ~Truthy(DraftId(analysis)) /\ Truthy(CompleteQuery(analysis))
    \/ a = S("SEARCH") /\ Truthy(GetOr(analysis, "search_query", S("")))

\* a lookup that takes the last hit of the search instead of the first
TargetIdLastHit(analysis, hits) ==
    IF Truthy(DraftId(analysis)) THEN DraftId(analysis)
    ELSE IF Searches(analysis) /\ hits # <<>> THEN GetOr(hits[Len(hits)], "id", S(""))
    ELSE DraftId(analysis)

\* the identifier the mutation is sent with: the draft's, else the first hit's
TargetId(analysis, hits) ==
    IF Truthy(DraftId(analysis)) THEN DraftId(analysis)
    ELSE IF Searches(analysis) /\ hits # <<>> THEN GetOr(hits[1], "id", S(""))
    ELSE DraftId(analysis)

UpdateFields == {"title", "description", "due_date", "reminder_date", "reminder_time"}

\* the keyword arguments of update_todo
UpdateArgs(h, analysis, id) ==
    IF h = "message"
    THEN [k \in {"todo_id"} \cup { f \in UpdateFields : Truthy(Get(analysis, f)) } |->
             IF k = "todo_id" THEN id ELSE analysis[k]]
    ELSE [k \in {"todo_id"} \cup UpdateFields |->
             IF k = "todo_id" THEN id ELSE Get(analysis, k)]

CreateArgs(analysis) ==
    [title |-> GetOr(analysis, "title", S("")),
     description |-> GetOr(analysis, "description", S("")),
     due_date |-> Get(analysis, "due_date"),
     reminder_date |-> Get(analysis, "reminder_date"),
     reminder_time |-> Get(analysis, "reminder_time")]

\* the task-store calls of one execute_action, in order, for a draft
\* without items; the loop over the items of a CREATE draft is ItemTurn
execute_action(h, analysis, hits) ==
    LET a == GetOr(analysis, "action", S("QUERY"))
        id == TargetId(analysis, hits)
        search == IF Searches(analysis)
                  THEN << Call("search_todos_by_title", [title |-> SearchArg(analysis)]) >>
                  ELSE <<>>
    IN  IF a = S("CREATE") THEN << Call("create_todo", CreateArgs(analysis)) >>
        ELSE IF a = S("UPDATE")
             THEN search \o (IF Truthy(id)
                             THEN << Call("update_todo", UpdateArgs(h, analysis, id)) >>
                             ELSE <<>>)
        ELSE IF a = S("COMPLETE")
             THEN search \o (IF Truthy(id)
                             THEN << Call("complete_todo", [todo_id |-> id]) >>
                             ELSE <<>>)
        ELSE IF a = S("DELETE")
             THEN search \o (IF Truthy(id)
                             THEN << Call("delete_todo", [todo_id |-> id]) >>
                             ELSE <<>>)
        ELSE IF a = S("LIST") THEN << Call("list_todos", NoDict) >>
        ELSE search

\* Config.TIMEZONE is Asia/Shanghai unless the environment says otherwise
UtcOffset == 8 * 60

\* to_utc_iso of utils/datetime_helper.py: the local date and time as a UTC
\* stamp, and the two values glued together when they do not parse
to_utc_iso(local_date, local_time) ==
    IF IsStr(local_date) /\ ParseDate(local_date) # ParseFail
          /\ IsStr(local_time) /\ ParseTime(local_time) # ParseFail
    THEN LET t == At(ParseDate(local_date), ParseTime(local_time)) - UtcOffset
         IN  S(DateOfInstant(t) \o "T" \o TimeOfInstant(t) \o ":00.000Z")
    ELSE [glued |-> <<local_date, local_time>>]

\* an update_task that writes every argument into the request
update_task_unfiltered(a) ==
    [title |-> a.title, body |-> a.description, status |-> a.status,
     dueDateTime |-> a.due_date, reminderDateTime |-> a.reminder_datetime]

\* ApiMixin.update_task: the body of the PATCH request, one key for each
\* argument that is truthy
update_task(a) ==
    LET value == [title |-> a.title,
                  body |-> D([content |-> a.description, contentType |-> S("text")]),
                  status |-> a.status,
                  dueDateTime |-> D([dateTime |-> a.due_date]),
                  reminderDateTime |-> D([dateTime |-> a.reminder_datetime])]
        argument == [title |-> a.title, body |-> a.description, status |-> a.status,
                     dueDateTime |-> a.due_date, reminderDateTime |-> a.reminder_datetime]
    IN  [k \in { f \in DOMAIN argument : Truthy(argument[f]) } |-> value[k]]

\* `'T' in due_date` of update_todo raises on a due date that is no string
UpdateTodoRaises(kwargs) ==
    Truthy(Get(kwargs, "due_date")) /\ ~IsStr(Get(kwargs, "due_date"))

\* CompatMixin.update_todo, for a task whose list is found: the PATCH body.
\* No due date of the drafts holds a "T", so the branch that passes a due
\* date on as it is stays out
update_todo(kwargs) ==
    LET reminder_date == Get(kwargs, "reminder_date")
        reminder_time == Get(kwargs, "reminder_time")
        due_date == Get(kwargs, "due_date")
        reminder_datetime ==
            IF Truthy(reminder_date)
            THEN to_utc_iso(reminder_date,
                            IF Truthy(reminder_time) THEN reminder_time ELSE S("09:00"))
            ELSE Null
        formatted_due_date ==
            IF Truthy(due_date) THEN to_utc_iso(due_date, S("00:00")) ELSE Null
    IN  update_task([title |-> Get(kwargs, "title"),
                     description |-> Get(kwargs, "description"),
                     status |-> Null,
                     due_date |-> formatted_due_date,
                     reminder_datetime |-> reminder_datetime])

\* the PATCH requests that the calls of one execute_action lead to.  The
\* todo_client of telegram_bot.py is MicrosoftTodoDirectClient, which has no
\* method update_todo: the call raises AttributeError and sends nothing
Patches(h, ops) ==
    LET sent(op) == /\ op.op = "update_todo"
                    /\ h = "message"
                    /\ ~UpdateTodoRaises(op.args)
        updates == SelectSeq(ops, sent)
    IN  [i \in 1..Len(updates) |-> update_todo(updates[i].args)]

\* what search_todos_by_title may answer
SearchAnswers == { <<>>, <<GoodTodo, DoneTodo>>, <<NoIdTodo>> }

----------------------------------------------------------------------------
(* Task decomposition: the gate and decompose_task of ai/decompose.py, as   *)
(* handle_text of handlers/message.py uses them.  A character outside ASCII *)
(* is written as its code point: "u51c6" "u5907" is the first term of the   *)
(* lexicon.                                                                 *)

COMPLEX_TASK_PATTERNS ==
    {
      <<"u51c6", "u5907">>, <<"u7b79", "u5907">>, <<"u7ec4", "u7ec7">>,
      <<"u7b56", "u5212">>, <<"u89c4", "u5212">>, <<"u5b8c", "u6210">>,
      <<"u641e", "u5b9a">>, <<"u5904", "u7406">>, <<"u9879", "u76ee">>,
      <<"u6d3b", "u52a8">>, <<"u4f1a", "u8bae">>, <<"u6c47", "u62a5">>,
      <<"u62a5", "u544a">>, <<"u51fa", "u5dee">>, <<"u65c5", "u884c">>,
      <<"u642c", "u5bb6">>, <<"u88c5", "u4fee">>, <<"u5b66", "u4e60">>,
      <<"u8003", "u8bd5">>, <<"u9762", "u8bd5">> }

\* str.lower() on one character
LowerChar(c) == IF c = "X" THEN "x" ELSE c

Lower(t) == [i \in 1..Len(t) |-> LowerChar(t[i])]

\* pattern in text
Contains(t, pattern) ==
    \E i \in 1..(Len(t) - Len(pattern) + 1) : SubSeq(t, i, i + Len(pattern) - 1) = pattern

\* len(title) or the comparison of the confidence is a TypeError
GateTypeError(analysis) ==
    \/ DOMAIN GetOr(analysis, "title", T(<<>>)) # {"t"}
    \/ ~IsInt(GetOr(analysis, "confidence", I(100)))

\* a gate that asks for the long title and the low confidence in any case
GateNeedsAll(t, analysis) ==
    /\ Get(analysis, "action") = S("CREATE")
    /\ (\E pattern \in COMPLEX_TASK_PATTERNS : Contains(Lower(t), pattern))
    /\ Len(GetOr(analysis, "title", T(<<>>)).t) > TitleThreshold
    /\ GetOr(analysis, "confidence", I(100)).i < ConfidenceThreshold

_should_suggest_decompose(t, analysis) ==
    IF Get(analysis, "action") # S("CREATE") THEN FALSE
    ELSE LET has_complex_pattern ==
                 \E pattern \in COMPLEX_TASK_PATTERNS : Contains(Lower(t), pattern)
             is_long_title == Len(GetOr(analysis, "title", T(<<>>)).t) > TitleThreshold
             low_confidence == GetOr(analysis, "confidence", I(100)).i < ConfidenceThreshold
         IN  has_complex_pattern \/ (is_long_title /\ low_confidence)

\* handle_text asks the gate only in handlers/message.py, and only for CREATE
AsksGate(h, analysis) == h = "message" /\ Get(analysis, "action") = S("CREATE")

\* a decompose_task that reaches its remote call before it fails
decompose_task_after_call(task_description, days) == [raised |-> "Exception", calls |-> 1]

\* decompose_task: get_decompose_tools is no name of the module, so the call
\* that builds the tools raises NameError before the first attempt
decompose_task(task_description, days) == [raised |-> "NameError", calls |-> 0]

\* telegram_bot.py constructs the AIService of ai_service.py; the handlers of
\* handlers/message.py call the service that is composed of the mixins
HandlerOf(im) == IF im = "AIService" THEN "telegram_bot" ELSE "message"

HandlerFrame ==
    UNCHANGED <<sideVars, impl, now, text, existing_todos, attempt, calls, sleeps, last,
                intent_analysis, match, match_result, returned, calc_days>>

\* handle_text after the analysis, when no decomposition is offered:
\* execute_action and the response
ExecuteAction ==
    /\ pc = "RESOLVED"
    /\ AsksGate(HandlerOf(impl), returned)
          => /\ ~GateTypeError(returned)
             /\ ~_should_suggest_decompose(text, returned)
    /\ pc' = "EXECUTED"
    /\ handler' = HandlerOf(impl)
    /\ gate' = IF AsksGate(handler', returned) THEN "passed" ELSE "none"
    /\ search_results' \in (IF Searches(returned) THEN SearchAnswers ELSE {<<>>})
    /\ store_ops' = execute_action(handler', returned, search_results')
    /\ executions' = executions + 1
    /\ patches' = Patches(handler', store_ops')
    /\ reply' = "response"
    /\ UNCHANGED remote
    /\ HandlerFrame

\* the gate fires and decompose_task is called: its exception ends handle_text
\* in the except branch, before any execute_action
DecomposeRaises ==
    /\ pc = "RESOLVED"
    /\ AsksGate(HandlerOf(impl), returned)
    /\ ~GateTypeError(returned)
    /\ _should_suggest_decompose(text, returned)
    /\ "raised" \in DOMAIN decompose_task(text, Null)
    /\ pc' = "HANDLER_ERROR"
    /\ handler' = HandlerOf(impl)
    /\ gate' = "fired"
    /\ reply' = "error"
    /\ remote' = remote \o [i \in 1..Min(decompose_task(text, Null).calls, 1) |-> "decomposition"]
    /\ UNCHANGED <<search_results, store_ops, executions, patches>>
    /\ HandlerFrame

\* the gate itself raises on a title or a confidence of the wrong type
GateRaises ==
    /\ pc = "RESOLVED"
    /\ AsksGate(HandlerOf(impl), returned)
    /\ GateTypeError(returned)
    /\ pc' = "HANDLER_ERROR"
    /\ handler' = HandlerOf(impl)
    /\ gate' = "raised"
    /\ reply' = "error"
    /\ UNCHANGED <<search_results, store_ops, remote, executions, patches>>
    /\ HandlerFrame

----------------------------------------------------------------------------

PipelineNext ==
    \/ AttemptPayload
    \/ AttemptException
    \/ AttemptNoPayload
    \/ Dispatch
    \/ ResolvePromptRaises
    \/ ResolveMerged
    \/ ResolveException
    \/ ResolveNoPayload
    \/ ExecuteAction
    \/ DecomposeRaises
    \/ GateRaises

Next == PipelineNext

Spec == Init /\ [][Next]_vars

----------------------------------------------------------------------------
(* The repair functions on their own: a draft in, a draft out *)

MaxDueShift == 2

RepairDrafts ==
    AbsolutePayloads \cup
    { [action |-> S("CREATE"), title |-> T(Gym), due_date |-> S(DateStr(d))] :
          d \in (Today - MaxDueShift)..(Today + MaxDueShift) } \cup
    { [action |-> S("CREATE"), title |-> T(Gym), reminder_time |-> S("soon")] }

InitRepair ==
    /\ now \in NowValues
    /\ draft_in \in RepairDrafts
    /\ auto_adjust \in BOOLEAN
    /\ draft_out = NoResult
    /\ draft_again = NoResult
    /\ pc = "DRAFT"
    /\ impl = "AIService"
    /\ text = <<>>
    /\ existing_todos = <<>>
    /\ attempt = 0
    /\ calls = 0
    /\ sleeps = 0
    /\ last = "none"
    /\ intent_analysis = NoResult
    /\ match = "none"
    /\ match_result = NoResult
    /\ returned = NoResult
    /\ handler = "none"
    /\ search_results = <<>>
    /\ store_ops = <<>>
    /\ calc_days = {}
    /\ gate = "none"
    /\ reply = "none"
    /\ remote = <<>>
    /\ executions = 0
    /\ patches = <<>>
    /\ calc_args = NoResult
    /\ calc_result = NoResult
    /\ dec_payload = NoResult
    /\ total_days = Null
    /\ dec_result = NoResult
    /\ MoreIdle

\* AIService._validate_and_fix_dates on the draft
ValidateAndFix ==
    /\ pc = "DRAFT"
    /\ ~ValidateRaises(draft_in)
    /\ draft_out' = _validate_and_fix_dates(draft_in, now)
    /\ pc' = "FIXED"
    /\ UNCHANGED <<now, pipelineVars, calcVars, decVars, moreVars, draft_in, draft_again, auto_adjust>>

\* the normalisers of datetime_helper, applied the way analyze_image does
Normalize ==
    /\ pc = "DRAFT"
    /\ ~NormalizeRaises(draft_in)
    /\ draft_out' = NormalizeDraft(draft_in, now, auto_adjust)
    /\ pc' = "NORMALIZED"
    /\ UNCHANGED <<now, pipelineVars, calcVars, decVars, moreVars, draft_in, draft_again, auto_adjust>>

\* _validate_and_fix_dates applied to its own result, with the same now
ValidateAndFixAgain ==
    /\ pc = "FIXED"
    /\ ~ValidateRaises(draft_out)
    /\ draft_again' = _validate_and_fix_dates(draft_out, now)
    /\ pc' = "FIXED_AGAIN"
    /\ UNCHANGED <<now, pipelineVars, calcVars, decVars, moreVars, draft_in, draft_out, auto_adjust>>

\* a date value that is no string makes strptime raise
RepairRaises ==
    /\ pc = "DRAFT"
    /\ ValidateRaises(draft_in) \/ NormalizeRaises(draft_in)
    /\ pc' = "REPAIR_RAISED"
    /\ UNCHANGED <<now, pipelineVars, calcVars, decVars, moreVars, repairVars>>

NextRepair == ValidateAndFix \/ ValidateAndFixAgain \/ Normalize \/ RepairRaises

SpecRepair == InitRepair /\ [][NextRepair]_vars

----------------------------------------------------------------------------
(* The temporal calculator on its own *)

MaxDays == 3

\* the text pipeline has not started
PipelineIdle ==
    /\ impl = "IntentMixin"
    /\ text = <<>>
    /\ existing_todos = <<>>
    /\ attempt = 0
    /\ calls = 0
    /\ sleeps = 0
    /\ last = "none"
    /\ intent_analysis = NoResult
    /\ match = "none"
    /\ match_result = NoResult
    /\ returned = NoResult
    /\ handler = "none"
    /\ search_results = <<>>
    /\ store_ops = <<>>
    /\ calc_days = {}
    /\ gate = "none"
    /\ reply = "none"
    /\ remote = <<>>
    /\ executions = 0
    /\ patches = <<>>

RepairIdle ==
    /\ draft_in = NoResult
    /\ draft_out = NoResult
    /\ draft_again = NoResult
    /\ auto_adjust = FALSE

InitCalc ==
    /\ now \in NowValues
    /\ calc_args \in [days : 0..MaxDays, hours : 0..23, minutes : 0..59]
    /\ calc_result = NoResult
    /\ pc = "CALC"
    /\ PipelineIdle
    /\ RepairIdle
    /\ dec_payload = NoResult
    /\ total_days = Null
    /\ dec_result = NoResult
    /\ MoreIdle

\* one call of calculate_relative_time(now, days=, hours=, minutes=)
Compute ==
    /\ pc = "CALC"
    /\ calc_result' = calculate_relative_time(now, I(calc_args.days), I(calc_args.hours),
                                              I(calc_args.minutes))
    /\ pc' = "COMPUTED"
    /\ UNCHANGED <<now, pipelineVars, repairVars, decVars, moreVars, calc_args>>

NextCalc == Compute

SpecCalc == InitCalc /\ [][NextCalc]_vars

----------------------------------------------------------------------------
(* decompose_task on its own, and the loop that accumulates the offsets of  *)
(* the subtasks of a tool call                                              *)

MaxSubtasks == 3
MaxOffset == 3

\* due_in_days of a subtask: absent, or an integer the model chose
Offsets == {Null} \cup { I(d) : d \in (0 - 1)..MaxOffset }

Subtask(offset) ==
    IF offset = Null THEN [title |-> T(Run), priority |-> I(3)]
    ELSE [title |-> T(Run), priority |-> I(3), due_in_days |-> offset]

DecomposePayloads ==
    { [subtasks |-> [i \in 1..Len(f) |-> Subtask(f[i])]] :
          f \in UNION { [1..k -> Offsets] : k \in 2..MaxSubtasks } }

RECURSIVE accumulated_days(_, _)
\* the value of accumulated_days after the first i subtasks
accumulated_days(subtasks, i) ==
    IF i = 0 THEN 0
    ELSE accumulated_days(subtasks, i - 1)
             + (IF Get(subtasks[i], "due_in_days") # Null
                THEN IntOf(subtasks[i]["due_in_days"]) ELSE 0)

\* the loop over result['subtasks']
AccumulateOffsets(subtasks, n) ==
    [i \in 1..Len(subtasks) |->
        IF Get(subtasks[i], "due_in_days") # Null
        THEN LET acc == accumulated_days(subtasks, i) IN
             DictSet(subtasks[i], "due_date",
                 S(IF acc > 0
                   THEN calculate_relative_time(n, I(acc), I(9), I(0))[1]
                   ELSE calculate_relative_time(n, I(0), I(0), I(0))[1]))
        ELSE subtasks[i]]

InitDecompose ==
    /\ now \in NowValues
    /\ dec_payload \in DecomposePayloads
    /\ total_days \in {Null, I(MaxOffset)}
    /\ dec_result = NoResult
    /\ pc = "DECOMPOSE"
    /\ PipelineIdle
    /\ RepairIdle
    /\ calc_args = NoResult
    /\ calc_result = NoResult
    /\ MoreIdle

\* decompose_task as handle_text calls it
DecomposeTask ==
    /\ pc = "DECOMPOSE"
    /\ dec_result' = decompose_task(text, total_days)
    /\ pc' = "DECOMPOSED"
    /\ UNCHANGED <<now, pipelineVars, repairVars, calcVars, moreVars, dec_payload, total_days>>

\* the accumulation loop of decompose_task applied to the tool call's subtasks
Accumulate ==
    /\ pc = "DECOMPOSE"
    /\ dec_result' = [action |-> S("DECOMPOSE"),
                      subtasks |-> AccumulateOffsets(dec_payload.subtasks, now)]
    /\ pc' = "ACCUMULATED"
    /\ UNCHANGED <<now, pipelineVars, repairVars, calcVars, moreVars, dec_payload, total_days>>

NextDecompose == DecomposeTask \/ Accumulate

SpecDecompose == InitDecompose /\ [][NextDecompose]_vars

----------------------------------------------------------------------------
(* AIService._robust_json_parse on its own.  A content is a sequence of     *)
(* pieces: "F" a markdown fence, "{" and "}", "d" a member written with     *)
(* double quotes, "s" a member written with single quotes, "w" prose.       *)

MaxContentLen == 5

Pieces == {"F", "{", "}", "d", "s", "w"}

Contents == UNION { [1..n -> Pieces] : n \in 0..MaxContentLen }

RECURSIVE ClosingBrace(_, _, _)
\* the position of the `}` that closes the object opened before position k,
\* 0 when there is none
ClosingBrace(c, k, depth) ==
    IF k > Len(c) THEN 0
    ELSE IF c[k] = "{" THEN ClosingBrace(c, k + 1, depth + 1)
    ELSE IF c[k] = "}" THEN (IF depth = 0 THEN k ELSE ClosingBrace(c, k + 1, depth - 1))
    ELSE ClosingBrace(c, k + 1, depth)

RECURSIVE IsJsonObject(_)
\* json.loads accepts c: an object whose members are written with double
\* quotes or are objects themselves
IsJsonObject(c) ==
    /\ Len(c) >= 2
    /\ c[1] = "{"
    /\ ClosingBrace(c, 2, 0) = Len(c)
    /\ \A k \in 2..(Len(c) - 1) :
          \/ c[k] \in {"d", "}"}
          \/ c[k] = "{" /\ ClosingBrace(c, k + 1, 0) # 0
                        /\ IsJsonObject(SubSeq(c, k, ClosingBrace(c, k + 1, 0)))

\* json.loads: the object, or JSONDecodeError
Loads(c) == IF IsJsonObject(c) THEN [ok |-> TRUE, obj |-> c] ELSE [ok |-> FALSE]

\* the two re.sub calls that strip a leading and a trailing fence, applied
\* only to a content that starts with a fence
StripFence(c) ==
    IF c # <<>> /\ c[1] = "F"
    THEN LET rest == Tail(c)
         IN  IF rest # <<>> /\ rest[Len(rest)] = "F"
             THEN SubSeq(rest, 1, Len(rest) - 1)
             ELSE rest
    ELSE c

RECURSIVE MatchEnd(_, _, _)
\* where the pattern \{[^{}]*(?:\{[^{}]*\}[^{}]*)*\} ends when it starts
\* before position k, 0 when it does not match there: one level of nesting
MatchEnd(c, k, inner) ==
    IF k > Len(c) THEN 0
    ELSE IF c[k] = "{" THEN (IF inner THEN 0 ELSE MatchEnd(c, k + 1, TRUE))
    ELSE IF c[k] = "}" THEN (IF inner THEN MatchEnd(c, k + 1, FALSE) ELSE k)
    ELSE MatchEnd(c, k + 1, inner)

\* re.search: the leftmost match of the pattern, <<>> when there is none
RegexSearch(c) ==
    LET starts == { i \in 1..Len(c) : c[i] = "{" /\ MatchEnd(c, i + 1, FALSE) # 0 }
    IN  IF starts = {} THEN <<>>
        ELSE LET i == CHOOSE x \in starts : \A y \in starts : x <= y
             IN  SubSeq(c, i, MatchEnd(c, i + 1, FALSE))

\* content_cleaned.replace("'", '"')
FixQuotes(c) == [k \in 1..Len(c) |-> IF c[k] = "s" THEN "d" ELSE c[k]]

InitParse ==
    /\ now \in NowValues
    /\ content \in {Null} \cup { T(c) : c \in Contents }
    /\ tried = <<>>
    /\ parsed = NoResult
    /\ pc = "PARSE"
    /\ PipelineIdle
    /\ RepairIdle
    /\ calc_args = NoResult
    /\ calc_result = NoResult
    /\ dec_payload = NoResult
    /\ total_days = Null
    /\ dec_result = NoResult
    /\ RunsIdle
    /\ CallbacksIdle
    /\ LateIdle

ParseFrame ==
    UNCHANGED <<now, pipelineVars, repairVars, calcVars, decVars, runVars, callbackVars,
                lateVars, content>>

\* content.strip() on a content that is None
ParseRaises ==
    /\ pc = "PARSE"
    /\ content = Null
    /\ pc' = "PARSE_RAISED"
    /\ UNCHANGED <<tried, parsed>>
    /\ ParseFrame

\* a first strategy that hands over to the quote repair when it fails
DirectParseThenQuotes ==
    /\ pc = "PARSE"
    /\ content # Null
    /\ tried' = Append(tried, "direct")
    /\ LET r == Loads(StripFence(content.t))
       IN  IF r.ok THEN pc' = "PARSED" /\ parsed' = r.obj
                   ELSE pc' = "QUOTES" /\ UNCHANGED parsed
    /\ ParseFrame

\* json.loads(content_cleaned)
DirectParse ==
    /\ pc = "PARSE"
    /\ content # Null
    /\ tried' = Append(tried, "direct")
    /\ LET r == Loads(StripFence(content.t))
       IN  IF r.ok THEN pc' = "PARSED" /\ parsed' = r.obj
                   ELSE pc' = "OBJECT" /\ UNCHANGED parsed
    /\ ParseFrame

\* json.loads(json_match.group(0)), when the pattern matches
ObjectParse ==
    /\ pc = "OBJECT"
    /\ tried' = Append(tried, "object")
    /\ LET json_match == RegexSearch(StripFence(content.t))
           r == Loads(json_match)
       IN  IF json_match # <<>> /\ r.ok THEN pc' = "PARSED" /\ parsed' = r.obj
                                        ELSE pc' = "QUOTES" /\ UNCHANGED parsed
    /\ ParseFrame

\* json.loads(fixed), and the final `return None`
QuoteParse ==
    /\ pc = "QUOTES"
    /\ tried' = Append(tried, "quotes")
    /\ LET r == Loads(FixQuotes(StripFence(content.t)))
       IN  IF r.ok THEN pc' = "PARSED" /\ parsed' = r.obj
                   ELSE pc' = "NONE" /\ parsed' = Null
    /\ ParseFrame

NextParse == ParseRaises \/ DirectParse \/ ObjectParse \/ QuoteParse

SpecParse == InitParse /\ [][NextParse]_vars

----------------------------------------------------------------------------
(* Concurrent runs of handle_text of handlers/message.py on one task store. *)
(* A run is list_todos, the analysis, execute_action; each is awaited, so   *)
(* the steps of the runs interleave.  The text is "gym" and the drafts pass *)
(* the decomposition gate.                                                  *)

MaxRuns == 2

Runs == 1..MaxRuns

\* the drafts the analysis may return for a listing: a CREATE, or a mutation
\* of a task of the listing
RunDrafts(tasks) ==
    { [action |-> S("CREATE"), title |-> T(Gym), confidence |-> I(90)] } \cup
    { [action |-> S(a), title |-> T(Gym), todo_id |-> id, confidence |-> I(90)] :
          a \in MutationActions, id \in tasks }

\* the id the task store gives to the task created by run r
NewId(r) == S("n" \o D2(r))

\* what the store answers a call: _find_list_id_for_task finds no list for
\* a task that does not exist, and the call returns an error
StoreAnswer(tasks, call) ==
    IF call.op \in {"update_todo", "complete_todo", "delete_todo"}
          /\ call.args["todo_id"] \notin tasks
    THEN "error"
    ELSE "ok"

\* the store after the call of run r
StoreAfter(tasks, call, r) ==
    IF call.op = "create_todo" THEN tasks \cup {NewId(r)}
    ELSE IF call.op = "delete_todo" THEN tasks \ {call.args["todo_id"]}
    ELSE tasks

\* the answers the calls of execute_action get from a store that holds tasks
Outcome(analysis, tasks) ==
    LET ops == execute_action("message", analysis, <<>>)
    IN  [i \in 1..Len(ops) |-> StoreAnswer(tasks, ops[i])]

InitRuns ==
    /\ now \in NowValues
    /\ store \in SUBSET {S("t1"), S("t2")}
    /\ rpc = [r \in Runs |-> "START"]
    /\ listing = [r \in Runs |-> {}]
    /\ draft = [r \in Runs |-> NoResult]
    /\ outcome = [r \in Runs |-> <<>>]
    /\ pc = "RUNS"
    /\ PipelineIdle
    /\ RepairIdle
    /\ ParseIdle
    /\ CallbacksIdle
    /\ LateIdle
    /\ calc_args = NoResult
    /\ calc_result = NoResult
    /\ dec_payload = NoResult
    /\ total_days = Null
    /\ dec_result = NoResult

RunsFrame ==
    UNCHANGED <<now, pc, pipelineVars, repairVars, calcVars, decVars, parseVars,
                callbackVars, lateVars>>

\* existing_todos = await self.todo_client.list_todos()
ListTodos ==
    \E r \in Runs :
        /\ rpc[r] = "START"
        /\ listing' = [listing EXCEPT ![r] = store]
        /\ rpc' = [rpc EXCEPT ![r] = "LISTED"]
        /\ UNCHANGED <<store, draft, outcome>>
        /\ RunsFrame

\* analysis = await self.ai_service.analyze_text_for_todos(user_text, existing_todos)
Analyze ==
    \E r \in Runs :
        /\ rpc[r] = "LISTED"
        /\ \E d \in RunDrafts(listing[r]) : draft' = [draft EXCEPT ![r] = d]
        /\ rpc' = [rpc EXCEPT ![r] = "ANALYZED"]
        /\ UNCHANGED <<store, listing, outcome>>
        /\ RunsFrame

\* result = await self.execute_action(analysis)
Execute ==
    \E r \in Runs :
        /\ rpc[r] = "ANALYZED"
        /\ LET ops == execute_action("message", draft[r], <<>>)
           IN  /\ outcome' = [outcome EXCEPT ![r] = Outcome(draft[r], store)]
               /\ store' = IF StoreAnswer(store, ops[1]) = "ok"
                           THEN StoreAfter(store, ops[1], r)
                           ELSE store
        /\ rpc' = [rpc EXCEPT ![r] = "DONE"]
        /\ UNCHANGED <<listing, draft>>
        /\ RunsFrame

NextRuns == ListTodos \/ Analyze \/ Execute

SpecRuns == InitRuns /\ [][NextRuns]_vars

----------------------------------------------------------------------------
(* The decomposition callbacks of handlers/menu.py for one user.  Each      *)
(* handler runs up to its next await in one step; between the awaits the    *)
(* handlers of other callbacks of the same user may run.                    *)

MaxCallbacks == 2

CallbackKinds == {"decompose_confirm_all", "decompose_cancel", "decompose_create_original"}

User == "u1"

\* what handle_text stores under the user id when decompose_task returns a
\* DECOMPOSE result: the original text and the dated subtasks.  The list is
\* the one of the tool call's arguments, which nothing checks for a length,
\* so the stored list may also be empty.
StoredDecomposition(n) ==
    [action |-> S("DECOMPOSE"),
     original_task |-> T(Project),
     subtasks |-> AccumulateOffsets(<<Subtask(I(1)), Subtask(I(2))>>, n)]

InitCallbacks ==
    /\ now \in NowValues
    /\ pending_decompose \in { NoDict, User :> StoredDecomposition(now),
                              User :> [StoredDecomposition(now) EXCEPT !.subtasks = <<>>] }
    /\ callbacks \in [1..MaxCallbacks ->
                        [kind : CallbackKinds, at : {"START"}, held : {NoResult},
                         next : {1}, reply : {"none"}]]
    /\ created = <<>>
    /\ pc = "CALLBACKS"
    /\ PipelineIdle
    /\ RepairIdle
    /\ ParseIdle
    /\ RunsIdle
    /\ calc_args = NoResult
    /\ calc_result = NoResult
    /\ dec_payload = NoResult
    /\ total_days = Null
    /\ dec_result = NoResult
    /\ LateIdle

CallbacksFrame ==
    UNCHANGED <<now, pc, pipelineVars, repairVars, calcVars, decVars, parseVars, runVars,
                lateVars>>

\* del self.pending_decompose[user_id]
Delete(pending) == [u \in (DOMAIN pending) \ {User} |-> pending[u]]

\* _handle_decompose_confirm_all up to `await query.edit_message_text(...)`
ConfirmAllRead ==
    \E c \in DOMAIN callbacks :
        /\ callbacks[c].kind = "decompose_confirm_all"
        /\ callbacks[c].at = "START"
        /\ LET decompose_result == Get(pending_decompose, User)
           IN  callbacks' =
                 [callbacks EXCEPT ![c] =
                    IF decompose_result = Null
                    THEN [@ EXCEPT !.at = "DONE", !.reply = "expired"]
                    ELSE IF GetOr(decompose_result, "subtasks", <<>>) = <<>>
                    THEN [@ EXCEPT !.at = "DONE", !.reply = "no subtasks"]
                    ELSE [@ EXCEPT !.at = "CREATING", !.held = decompose_result]]
        /\ UNCHANGED <<pending_decompose, created>>
        /\ CallbacksFrame

\* one turn of the loop: `await self.todo_client.create_todo(...)` for the
\* next subtask
ConfirmAllCreate ==
    \E c \in DOMAIN callbacks :
        /\ callbacks[c].kind = "decompose_confirm_all"
        /\ callbacks[c].at = "CREATING"
        /\ callbacks[c].next <= Len(callbacks[c].held.subtasks)
        /\ created' = Append(created, [by |-> c, what |-> "subtask",
                                       index |-> callbacks[c].next])
        /\ callbacks' = [callbacks EXCEPT ![c].next = @ + 1]
        /\ UNCHANGED pending_decompose
        /\ CallbacksFrame

\* after the loop: the del, which is a KeyError when the entry is gone and
\* then ends in the except branch, and the message about the result
ConfirmAllCleanup ==
    \E c \in DOMAIN callbacks :
        /\ callbacks[c].kind = "decompose_confirm_all"
        /\ callbacks[c].at = "CREATING"
        /\ callbacks[c].next > Len(callbacks[c].held.subtasks)
        /\ pending_decompose' = Delete(pending_decompose)
        /\ callbacks' = [callbacks EXCEPT ![c].at = "DONE",
                            ![c].reply = IF User \in DOMAIN pending_decompose
                                         THEN "created" ELSE "failed"]
        /\ UNCHANGED created
        /\ CallbacksFrame

\* _handle_decompose_cancel
Cancel ==
    \E c \in DOMAIN callbacks :
        /\ callbacks[c].kind = "decompose_cancel"
        /\ callbacks[c].at = "START"
        /\ pending_decompose' = Delete(pending_decompose)
        /\ callbacks' = [callbacks EXCEPT ![c].at = "DONE", ![c].reply = "cancelled"]
        /\ UNCHANGED created
        /\ CallbacksFrame

\* _handle_decompose_create_original up to `await self.todo_client.create_todo(...)`
CreateOriginalRead ==
    \E c \in DOMAIN callbacks :
        /\ callbacks[c].kind = "decompose_create_original"
        /\ callbacks[c].at = "START"
        /\ LET decompose_result == Get(pending_decompose, User)
           IN  IF decompose_result = Null
               THEN /\ callbacks' = [callbacks EXCEPT ![c].at = "DONE",
                                                      ![c].reply = "expired"]
                    /\ UNCHANGED created
               ELSE /\ callbacks' = [callbacks EXCEPT ![c].at = "CLEANUP",
                                                      ![c].held = decompose_result]
                    /\ created' = Append(created, [by |-> c, what |-> "original",
                                                   index |-> 0])
        /\ UNCHANGED pending_decompose
        /\ CallbacksFrame

\* after the create: the del and the message about the result
CreateOriginalCleanup ==
    \E c \in DOMAIN callbacks :
        /\ callbacks[c].kind = "decompose_create_original"
        /\ callbacks[c].at = "CLEANUP"
        /\ pending_decompose' = Delete(pending_decompose)
        /\ callbacks' = [callbacks EXCEPT ![c].at = "DONE",
                            ![c].reply = IF User \in DOMAIN pending_decompose
                                         THEN "created" ELSE "failed"]
        /\ UNCHANGED created
        /\ CallbacksFrame

NextCallbacks ==
    \/ ConfirmAllRead
    \/ ConfirmAllCreate
    \/ ConfirmAllCleanup
    \/ Cancel
    \/ CreateOriginalRead
    \/ CreateOriginalCleanup

SpecCallbacks == InitCallbacks /\ [][NextCallbacks]_vars

----------------------------------------------------------------------------
(* The AuthManager of auth_manager.py and the entry of the update handlers. *)
(* Time is in seconds.  What a handler does once it is past its check is    *)
(* recorded as the names of the calls it issues, in order; for a command of *)
(* the admin the record names the user id the command was about.            *)

admin_ids == {"admin"}

Users == {"admin", "u1"}

\* update.effective_user is None
NoUser == "None"

rate_limit_window == 60

rate_limit_max_requests == 30

is_admin(user_id) == user_id \in admin_ids

has_permission(user_id) ==
    IF user_id \in blacklist THEN FALSE
    ELSE is_admin(user_id) \/ user_id \in whitelist

\* add_to_blacklist without its refusal of an admin
add_to_blacklist_anyone(user_id) == blacklist \cup {user_id}

\* the blacklist after add_to_blacklist(user_id)
add_to_blacklist(user_id) ==
    IF user_id \in admin_ids THEN blacklist ELSE blacklist \cup {user_id}

\* check_rate_limit that compares with > where the code compares with >=
check_rate_limit_one_more(user_id) ==
    LET kept == IF user_id \in DOMAIN user_requests
                THEN SelectSeq(user_requests[user_id],
                               LAMBDA ts : clock - ts < rate_limit_window)
                ELSE <<>>
    IN  IF Len(kept) > rate_limit_max_requests
        THEN [allowed |-> FALSE, requests |-> kept]
        ELSE [allowed |-> TRUE, requests |-> Append(kept, clock)]

\* check_rate_limit(user_id): whether the request is admitted, and the list
\* self.user_requests[user_id] after the call
check_rate_limit(user_id) ==
    LET kept == IF user_id \in DOMAIN user_requests
                THEN SelectSeq(user_requests[user_id],
                               LAMBDA ts : clock - ts < rate_limit_window)
                ELSE <<>>
    IN  IF Len(kept) >= rate_limit_max_requests
        THEN [allowed |-> FALSE, requests |-> kept]
        ELSE [allowed |-> TRUE, requests |-> Append(kept, clock)]

\* check_permission(update) with check_rate_limit=True: the verdict, whether
\* the rate limiter recorded the request, and self.user_requests afterwards
check_permission(user_id) ==
    IF user_id = NoUser \/ user_id \in blacklist \/ ~has_permission(user_id)
    THEN [allowed |-> FALSE, recorded |-> FALSE, user_requests |-> user_requests]
    ELSE IF ~is_admin(user_id)
    THEN LET limit == check_rate_limit(user_id)
         IN  [allowed |-> limit.allowed, recorded |-> limit.allowed,
              user_requests |-> DictSet(user_requests, user_id, limit.requests)]
    ELSE [allowed |-> TRUE, recorded |-> FALSE, user_requests |-> user_requests]

\* a check that lets everybody pass
_check_admin_permission_open(user_id) == TRUE

\* TodoTelegramBot._check_admin_permission
_check_admin_permission(user_id) == check_permission(user_id).allowed

\* an admin check that also lets a whitelisted user pass
_is_admin_or_permitted(user_id) == has_permission(user_id)

\* TodoTelegramBot._is_admin
_is_admin(user_id) == is_admin(user_id)

MaxAdmitted == 32

AuthFrame ==
    UNCHANGED <<now, pc, pipelineVars, repairVars, calcVars, decVars, parseVars, runVars,
                callbacks, created, requestVars, sessionVars, imageVars, item_run>>

\* the part of check_permission that changes the AuthManager
Checked(user_id) ==
    LET permission == check_permission(user_id)
    IN  /\ user_requests' = permission.user_requests
        /\ admitted' = IF permission.recorded
                       THEN Append(admitted, [user |-> user_id, at |-> clock])
                       ELSE admitted

InitAuth ==
    /\ now \in NowValues
    /\ pc = "AUTH"
    /\ blacklist = {}
    /\ whitelist = {}
    /\ user_requests = NoDict
    /\ clock = 0
    /\ admitted = <<>>
    /\ effects = NoResult
    /\ pending_decompose \in { NoDict }
                             \cup { user_id :> StoredDecomposition(now) : user_id \in Users }
    /\ callbacks = <<>>
    /\ created = <<>>
    /\ ImageIdle
    /\ ItemsIdle
    /\ PipelineIdle
    /\ RepairIdle
    /\ ParseIdle
    /\ RunsIdle
    /\ calc_args = NoResult
    /\ calc_result = NoResult
    /\ dec_payload = NoResult
    /\ total_days = Null
    /\ dec_result = NoResult
    /\ RequestIdle
    /\ SessionIdle

\* /blacklist_add <user_id>
AddToBlacklist ==
    \E user_id \in Users :
        /\ blacklist' = add_to_blacklist(user_id)
        /\ effects' = [handler |-> "add_to_blacklist", user |-> user_id,
                       allowed |-> user_id \notin admin_ids, calls |-> <<>>]
        /\ UNCHANGED <<whitelist, user_requests, clock, admitted, pending_decompose>>
        /\ AuthFrame

\* /blacklist_remove <user_id>
RemoveFromBlacklist ==
    \E user_id \in Users :
        /\ blacklist' = blacklist \ {user_id}
        /\ effects' = [handler |-> "remove_from_blacklist", user |-> user_id,
                       allowed |-> TRUE, calls |-> <<>>]
        /\ UNCHANGED <<whitelist, user_requests, clock, admitted, pending_decompose>>
        /\ AuthFrame

\* /whitelist_add <user_id>
AddToWhitelist ==
    \E user_id \in Users :
        /\ whitelist' = whitelist \cup {user_id}
        /\ effects' = [handler |-> "add_to_whitelist", user |-> user_id,
                       allowed |-> TRUE, calls |-> <<>>]
        /\ UNCHANGED <<blacklist, user_requests, clock, admitted, pending_decompose>>
        /\ AuthFrame

\* /whitelist_remove <user_id>
RemoveFromWhitelist ==
    \E user_id \in Users :
        /\ whitelist' = whitelist \ {user_id}
        /\ effects' = [handler |-> "remove_from_whitelist", user |-> user_id,
                       allowed |-> TRUE, calls |-> <<>>]
        /\ UNCHANGED <<blacklist, user_requests, clock, admitted, pending_decompose>>
        /\ AuthFrame

\* handle_text: the check, then the auth-code route, a keyboard button that
\* lists the tasks, or the extraction pipeline
HandleText ==
    \E user_id \in Users \cup {NoUser}, route \in {"auth_code", "keyboard", "plain"} :
        /\ Len(admitted) < MaxAdmitted
        /\ Checked(user_id)
        /\ effects' =
             [handler |-> "handle_text", user |-> user_id,
              allowed |-> check_permission(user_id).allowed,
              calls |-> IF ~_check_admin_permission(user_id) THEN <<>>
                        ELSE IF route = "auth_code" THEN <<"_handle_auth_code">>
                        ELSE IF route = "keyboard" THEN <<"list_todos">>
                        ELSE <<"list_todos", "analyze_text_for_todos">>]
        /\ UNCHANGED <<blacklist, whitelist, clock, pending_decompose>>
        /\ AuthFrame

\* handle_photo: the check, then the download, which ends the handler when
\* the file is too large or of a format that is not allowed, then the analysis
HandlePhoto ==
    \E user_id \in Users \cup {NoUser}, accepted \in BOOLEAN :
        /\ Len(admitted) < MaxAdmitted
        /\ Checked(user_id)
        /\ effects' =
             [handler |-> "handle_photo", user |-> user_id,
              allowed |-> check_permission(user_id).allowed,
              calls |-> IF ~_check_admin_permission(user_id) THEN <<>>
                        ELSE IF ~accepted THEN <<"get_file">>
                        ELSE <<"get_file", "list_todos", "analyze_image_for_todos",
                               "execute_action">>]
        /\ UNCHANGED <<blacklist, whitelist, clock, pending_decompose>>
        /\ AuthFrame

\* handle_callback_query: the admin check, then the handler of the callback
\* data, run to its end
HandleCallbackQuery ==
    \E user_id \in Users,
       callback_data \in {"decompose_cancel", "decompose_create_original", "menu_list_all"} :
        /\ IF ~_is_admin(user_id)
           THEN /\ effects' = [handler |-> "handle_callback_query", user |-> user_id,
                               allowed |-> is_admin(user_id), calls |-> <<>>]
                /\ UNCHANGED pending_decompose
           ELSE /\ effects' =
                     [handler |-> "handle_callback_query", user |-> user_id,
                      allowed |-> is_admin(user_id),
                      calls |-> IF callback_data = "menu_list_all" THEN <<"list_todos">>
                                ELSE IF callback_data = "decompose_create_original"
                                        /\ user_id \in DOMAIN pending_decompose
                                THEN <<"create_todo">>
                                ELSE <<>>]
                /\ pending_decompose' =
                     IF callback_data = "menu_list_all" THEN pending_decompose
                     ELSE [u \in (DOMAIN pending_decompose) \ {user_id} |->
                              pending_decompose[u]]
        /\ UNCHANGED <<blacklist, whitelist, user_requests, clock, admitted>>
        /\ AuthFrame

NextAuth ==
    \/ AddToBlacklist
    \/ RemoveFromBlacklist
    \/ AddToWhitelist
    \/ RemoveFromWhitelist
    \/ HandleText
    \/ HandlePhoto
    \/ HandleCallbackQuery

SpecAuth == InitAuth /\ [][NextAuth]_vars

----------------------------------------------------------------------------
(* The rate limiter over time: the permission check of a whitelisted user   *)
(* and of the admin, with the clock moving between the checks.              *)

MaxTicks == 2

\* the clock moves by half a window, so that a request is exactly one window
\* old at every second tick
Step == rate_limit_window \div 2

InitRate ==
    /\ now \in NowValues
    /\ pc = "RATE"
    /\ blacklist = {}
    /\ whitelist = {"u1"}
    /\ user_requests = NoDict
    /\ clock = 0
    /\ admitted = <<>>
    /\ effects = NoResult
    /\ CallbacksIdle
    /\ ImageIdle
    /\ ItemsIdle
    /\ PipelineIdle
    /\ RepairIdle
    /\ ParseIdle
    /\ RunsIdle
    /\ calc_args = NoResult
    /\ calc_result = NoResult
    /\ dec_payload = NoResult
    /\ total_days = Null
    /\ dec_result = NoResult
    /\ RequestIdle
    /\ SessionIdle

\* await self.auth_manager.check_permission(update)
CheckPermission ==
    \E user_id \in Users :
        /\ Len(admitted) < MaxAdmitted
        /\ Checked(user_id)
        /\ effects' = [handler |-> "check_permission", user |-> user_id,
                       allowed |-> check_permission(user_id).allowed,
                       calls |-> <<>>, at |-> clock]
        /\ UNCHANGED <<blacklist, whitelist, clock, pending_decompose>>
        /\ AuthFrame

\* time passes
Tick ==
    /\ clock + Step <= MaxTicks * Step
    /\ clock' = clock + Step
    /\ UNCHANGED <<blacklist, whitelist, user_requests, admitted, effects,
                   pending_decompose>>
    /\ AuthFrame

NextRate == CheckPermission \/ Tick

SpecRate == InitRate /\ [][NextRate]_vars

----------------------------------------------------------------------------
(* One call of MicrosoftTodoDirectClient._make_request.  An HTTP exchange   *)
(* is recorded with the status of its response, 0 when the exchange raised. *)

Methods == {"GET", "POST", "PATCH", "DELETE"}

\* what an exchange can end in: a response with a status and a text, or an
\* exception
Responses ==
    [status : {200, 401, 404}, text : {"", "json", "junk"}]
        \cup {[status |-> 0, text |-> ""]}

\* the recursive call of line 166 with retry_on_401 as the caller had it
ResendRetrying(req) == [req EXCEPT !.at = "SEND"]

\* return await self._make_request(method, endpoint, data, retry_on_401=False)
Resend(req) == [req EXCEPT !.at = "SEND", !.retry_on_401 = FALSE]

InitRequest ==
    /\ now \in NowValues
    /\ pc = "REQUEST"
    /\ credentials \in [access_token : {S("old")},
                         refresh_token : {Null, S("client_credentials_flow"), S("rt")},
                         client_id : {Null, S("id")},
                         client_secret : {Null, S("secret")}]
    /\ request \in [method : Methods, retry_on_401 : {TRUE}, at : {"SEND"},
                     refreshes : {0}, result : {NoResult}]
    /\ http = <<>>
    /\ AuthIdle
    /\ SessionIdle
    /\ CallbacksIdle
    /\ ImageIdle
    /\ ItemsIdle
    /\ PipelineIdle
    /\ RepairIdle
    /\ ParseIdle
    /\ RunsIdle
    /\ calc_args = NoResult
    /\ calc_result = NoResult
    /\ dec_payload = NoResult
    /\ total_days = Null
    /\ dec_result = NoResult

RequestFrame ==
    UNCHANGED <<now, pc, pipelineVars, repairVars, calcVars, decVars, parseVars, runVars,
                callbackVars, authVars, sessionVars, imageVars, item_run>>

\* what _make_request returns for a response it does not answer by a refresh
Answer(response) ==
    IF response.status = 0 THEN "error" :> S("exception")
    ELSE IF response.status >= 400 THEN "error" :> S("API request failed")
    ELSE IF response.text = "" THEN "success" :> B(TRUE)
    ELSE IF response.text = "junk" THEN "error" :> S("exception")
    ELSE "value" :> S("json")

\* async with self.session.request(...) as response, up to the refresh or
\* to the return
Send ==
    \E response \in Responses :
        /\ request.at = "SEND"
        /\ http' = Append(http, [call |-> "request", status |-> response.status])
        /\ request' = IF response.status = 401 /\ request.retry_on_401
                       THEN [request EXCEPT !.at = "REFRESH"]
                       ELSE [request EXCEPT !.at = "DONE", !.result = Answer(response)]
        /\ UNCHANGED credentials
        /\ RequestFrame

\* whether _refresh_access_token posts to the token endpoint at all
RefreshPosts ==
    IF ~Truthy(credentials.refresh_token) THEN FALSE
    ELSE IF credentials.refresh_token = S("client_credentials_flow")
    THEN Truthy(credentials.client_secret)
    ELSE Truthy(credentials.client_id)

\* if await self._refresh_access_token(): the resend, else the error result
Refresh ==
    \E status \in {200, 400, 0}, rotated \in BOOLEAN :
        /\ request.at = "REFRESH"
        /\ IF RefreshPosts
           THEN /\ http' = Append(http, [call |-> "token", status |-> status])
                /\ IF status = 200
                   THEN /\ credentials' =
                             [credentials EXCEPT
                                 !.access_token = S("new"),
                                 !.refresh_token =
                                     IF rotated /\ @ # S("client_credentials_flow")
                                     THEN S("rt2") ELSE @]
                        /\ request' = [Resend(request) EXCEPT !.refreshes = @ + 1]
                   ELSE /\ UNCHANGED credentials
                        /\ request' = [request EXCEPT !.at = "DONE", !.refreshes = @ + 1,
                                           !.result = "error" :> S("refresh failed")]
           ELSE /\ UNCHANGED <<http, credentials>>
                /\ request' = [request EXCEPT !.at = "DONE", !.refreshes = @ + 1,
                                   !.result = "error" :> S("refresh failed")]
        /\ RequestFrame

NextRequest == Send \/ Refresh

SpecRequest == InitRequest /\ [][NextRequest]_vars /\ WF_vars(NextRequest)

----------------------------------------------------------------------------
(* The authorization sessions of handlers/token.py.  A scheduled cleanup is *)
(* a timer that counts the seconds it has left; time passes for all timers  *)
(* at once and a timer that has run down fires before time passes again.    *)

MaxOpened == 2

CleanupDelay == 600

\* time moves by half the delay of a cleanup
Elapse == CleanupDelay \div 2

\* self.pending_auth[user_id] = {"session_id": ..., "expecting_code": True}
Open(user_id) ==
    DictSet(pending_auth, user_id, [session_id |-> I(opened + 1), expecting_code |-> B(TRUE)])

\* del self.pending_auth[user_id], when the user has a session
Close(user_id) ==
    [u \in (DOMAIN pending_auth) \ {user_id} |-> pending_auth[u]]

InitSession ==
    /\ now \in NowValues
    /\ pc = "SESSION"
    /\ SessionIdle
    /\ AuthIdle
    /\ RequestIdle
    /\ CallbacksIdle
    /\ ImageIdle
    /\ ItemsIdle
    /\ PipelineIdle
    /\ RepairIdle
    /\ ParseIdle
    /\ RunsIdle
    /\ calc_args = NoResult
    /\ calc_result = NoResult
    /\ dec_payload = NoResult
    /\ total_days = Null
    /\ dec_result = NoResult

SessionFrame ==
    UNCHANGED <<now, pc, pipelineVars, repairVars, calcVars, decVars, parseVars, runVars,
                callbackVars, authVars, requestVars, imageVars, item_run>>

\* get_auth_link_command past its permission check: the session, the reply
\* with the link, and the cleanup job when the application has a job queue
GetAuthLinkCommand ==
    \E user_id \in Users, job_queue \in BOOLEAN, reply_raises \in BOOLEAN :
        /\ opened < MaxOpened
        /\ opened' = opened + 1
        /\ pending_auth' = Open(user_id)
        /\ timers' = IF ~reply_raises /\ job_queue
                      THEN timers \cup {[id |-> opened + 1, user |-> user_id,
                                          kind |-> "job", left |-> CleanupDelay]}
                      ELSE timers
        /\ UNCHANGED diverted
        /\ SessionFrame

\* _handle_token_auth_link_callback, which handle_callback_query runs for an
\* admin: the session, the edit of the message, and the cleanup task
TokenAuthLinkCallback ==
    \E user_id \in Users, edit_raises \in BOOLEAN :
        /\ is_admin(user_id)
        /\ opened < MaxOpened
        /\ opened' = opened + 1
        /\ pending_auth' = Open(user_id)
        /\ timers' = IF ~edit_raises
                      THEN timers \cup {[id |-> opened + 1, user |-> user_id,
                                          kind |-> "task", left |-> CleanupDelay]}
                      ELSE timers
        /\ UNCHANGED diverted
        /\ SessionFrame

\* handle_text of a user who has a session that expects a code: the text goes
\* to _handle_auth_code, which ends the session when the exchange succeeds
TextAsAuthCode ==
    \E user_id \in DOMAIN pending_auth, code \in {"short", "refused", "exchanged"} :
        /\ Truthy(GetOr(pending_auth[user_id], "expecting_code", Null))
        /\ diverted' = "_handle_auth_code"
        /\ pending_auth' = IF code = "exchanged" THEN Close(user_id) ELSE pending_auth
        /\ UNCHANGED <<timers, opened>>
        /\ SessionFrame

\* handle_text of a user who has no session: the text goes on to the
\* extraction
TextToPipeline ==
    \E user_id \in Users \ DOMAIN pending_auth :
        /\ diverted' = "analyze_text_for_todos"
        /\ UNCHANGED <<pending_auth, timers, opened>>
        /\ SessionFrame

\* _cleanup_auth_session / _delayed_cleanup_auth_session after the delay
CleanupAuthSession ==
    \E timer \in timers :
        /\ timer.left = 0
        /\ timers' = timers \ {timer}
        /\ pending_auth' = Close(timer.user)
        /\ UNCHANGED <<opened, diverted>>
        /\ SessionFrame

\* time passes
Elapsed ==
    /\ timers # {}
    /\ \A timer \in timers : timer.left > 0
    /\ timers' = { [timer EXCEPT !.left = @ - Elapse] : timer \in timers }
    /\ UNCHANGED <<pending_auth, opened, diverted>>
    /\ SessionFrame

NextSession ==
    \/ GetAuthLinkCommand
    \/ TokenAuthLinkCallback
    \/ TextAsAuthCode
    \/ TextToPipeline
    \/ CleanupAuthSession
    \/ Elapsed

\* the event loop runs a cleanup that is due, and time passes; that a user
\* ever sends a code that can be exchanged is not assumed
SpecSession ==
    InitSession /\ [][NextSession]_vars
        /\ WF_vars(CleanupAuthSession) /\ WF_vars(Elapsed)

----------------------------------------------------------------------------
(* analyze_image_for_todos of ai/image.py: the vision step and the analysis *)
(* step, each a loop of max_retries + 1 attempts.                           *)

\* what the vision call can end in: an exception, or a content that is
\* None, empty, or a description
VisionOutcomes == {[raised |-> "Exception"], Null, T(<<>>), T(Project)}

\* the arguments of the tool call of the analysis step
ImagePayloads ==
    { [action |-> S("CREATE"), title |-> T(Gym)],
      [action |-> S("CREATE"), title |-> T(Gym), due_date |-> S(DateStr(Today - 1))],
      [action |-> S("CREATE"), title |-> T(Gym), due_date |-> S("soon")],
      [action |-> S("CREATE"), title |-> T(Gym), due_date |-> I(5)],
      [action |-> S("CREATE"), title |-> T(Gym), reminder_date |-> S(DateStr(Today)),
       reminder_time |-> S("09:00")],
      [action |-> S("UPDATE"), title |-> T(Run), reminder_date |-> S(DateStr(Today))] }

\* what the analysis call can end in: an exception, a message without tool
\* call, arguments that are no JSON (json.loads raises) or no JSON object
\* (result.get raises), or a payload
AnalysisOutcomes ==
    { [raised |-> "Exception"], [tool_calls |-> Null], [raised |-> "JSONDecodeError"],
      [raised |-> "AttributeError"] } \cup ImagePayloads

\* a retry condition that allows one attempt more
RetriesOnceMore(n) == n <= max_retries

\* if attempt < max_retries
Retries(n) == n < max_retries

\* the three fallback drafts
VisionFailedDraft(note) ==
    [action |-> S("CREATE"),
     items |-> <<[title |-> S("u56feu7247u5f85u529eu4e8bu9879"),
                  description |-> IF Truthy(note) THEN note
                                  ELSE S("u56feu7247u5185u5bb9")]>>,
     confidence |-> I(0),
     reasoning |-> S("u56feu7247u5206u6790u5931u8d25")]

NoDescriptionDraft ==
    [action |-> S("CREATE"),
     items |-> <<[title |-> S("u56feu7247u5f85u529eu4e8bu9879")]>>,
     confidence |-> I(0)]

AnalysisFailedDraft(image_description) ==
    [action |-> S("CREATE"),
     items |-> <<[title |-> S("u56feu7247u5f85u529e"),
                  description |-> T(Prefix(image_description.t, 100))]>>,
     image_description |-> T(Prefix(image_description.t, 200)),
     confidence |-> I(50),
     reasoning |-> S("u57fau4e8eu56feu7247u5185u5bb9u521bu5efa")]

\* the payload as the analysis step returns it
AnalysedDraft(result, image_description, n) ==
    DictSet(NormalizeDraft(result, n, FALSE), "image_description",
            T(Prefix(image_description.t, 200)))

InitImage ==
    /\ now \in NowValues
    /\ pc = "IMAGE"
    /\ caption \in {Null, T(Gym)}
    /\ image = [stage |-> "VISION", attempt |-> 0, vision_calls |-> 0,
                analysis_calls |-> 0, sleeps |-> 0, image_description |-> Null,
                returned |-> NoResult]
    /\ ItemsIdle
    /\ AuthIdle
    /\ RequestIdle
    /\ SessionIdle
    /\ CallbacksIdle
    /\ PipelineIdle
    /\ RepairIdle
    /\ ParseIdle
    /\ RunsIdle
    /\ calc_args = NoResult
    /\ calc_result = NoResult
    /\ dec_payload = NoResult
    /\ total_days = Null
    /\ dec_result = NoResult

ImageFrame ==
    UNCHANGED <<now, pc, pipelineVars, repairVars, calcVars, decVars, parseVars, runVars,
                callbackVars, authVars, requestVars, sessionVars, caption, item_run>>

\* one turn of the first loop.  A content that is None makes the slice of
\* the log line a TypeError, which the except of the loop catches like an
\* exception of the call.
VisionAttempt ==
    \E answer \in VisionOutcomes :
        /\ image # NoResult
        /\ image.stage = "VISION"
        /\ image' =
             LET called == [image EXCEPT !.vision_calls = @ + 1] IN
             IF "raised" \in DOMAIN answer \/ answer = Null
             THEN IF Retries(image.attempt)
                  THEN [called EXCEPT !.attempt = @ + 1, !.sleeps = @ + 1]
                  ELSE [called EXCEPT !.stage = "DONE",
                                      !.returned = VisionFailedDraft(caption)]
             ELSE IF ~Truthy(answer)
             THEN [called EXCEPT !.stage = "DONE", !.image_description = answer,
                                 !.returned = NoDescriptionDraft]
             ELSE [called EXCEPT !.stage = "ANALYSIS", !.attempt = 0,
                                 !.image_description = answer]
        /\ ImageFrame

\* one turn of the second loop
AnalysisAttempt ==
    \E answer \in AnalysisOutcomes :
        /\ image # NoResult
        /\ image.stage = "ANALYSIS"
        /\ image' =
             LET called == [image EXCEPT !.analysis_calls = @ + 1]
                 last_turn == image.attempt = max_retries
                 fallback == [called EXCEPT !.stage = "DONE",
                                 !.returned = AnalysisFailedDraft(image.image_description)]
             IN  IF answer = [tool_calls |-> Null]
                 THEN IF last_turn THEN fallback ELSE [called EXCEPT !.attempt = @ + 1]
                 ELSE IF "raised" \in DOMAIN answer \/ NormalizeRaises(answer)
                 THEN IF Retries(image.attempt)
                      THEN [called EXCEPT !.attempt = @ + 1, !.sleeps = @ + 1]
                      ELSE fallback
                 ELSE [called EXCEPT !.stage = "DONE",
                          !.returned = AnalysedDraft(answer, image.image_description, now)]
        /\ ImageFrame

NextImage == VisionAttempt \/ AnalysisAttempt

SpecImage == InitImage /\ [][NextImage]_vars /\ WF_vars(NextImage)

----------------------------------------------------------------------------
(* execute_action of handlers/message.py on a CREATE draft that carries     *)
(* items: for every item a listing, a re-analysis of the item's text by     *)
(* analyze_text_for_todos of the IntentMixin, and a create_todo.            *)

MaxItems == 2

Items == { [title |-> T(Gym)], [title |-> T(Run), description |-> T(Project)] }

ItemDrafts ==
    { [action |-> S("CREATE"), items |-> items, confidence |-> I(50)] :
          items \in UNION { [1..k -> Items] : k \in 1..MaxItems } }

\* what the re-analysis of an item's text extracts
ItemAnalyses ==
    { [action |-> S("CREATE"), title |-> T(Project), due_date |-> S(DateStr(Today))],
      [action |-> S("CREATE")],
      [action |-> S("DELETE"), title |-> T(Gym), todo_id |-> S("t1")],
      [action |-> S("UPDATE"), title |-> T(Gym)],
      [action |-> S("COMPLETE"), title |-> T(Run)] }

ItemListings == { <<>>, <<GoodTodo, DoneTodo>>, <<NoIdTodo>> }

\* analyze_text_for_todos raises while it builds the prompt of its second
\* call
ReanalysisRaises(extraction, todos) ==
    /\ NeedsMatch(extraction)
    /\ Candidates(todos) # <<>>
    /\ PromptRaises("IntentMixin", Candidates(todos))

\* the arguments of the create_todo of one item
ItemCreateArgs(detailed_analysis, item) ==
    [title |-> GetOr(detailed_analysis, "title", GetOr(item, "title", S(""))),
     description |-> GetOr(detailed_analysis, "description",
                           GetOr(item, "description", S(""))),
     due_date |-> Get(detailed_analysis, "due_date"),
     reminder_date |-> Get(detailed_analysis, "reminder_date"),
     reminder_time |-> Get(detailed_analysis, "reminder_time")]

InitItems ==
    /\ now \in NowValues
    /\ pc = "ITEMS"
    /\ item_run \in [analysis : ItemDrafts, next : {1}, ops : {<<>>}, at : {"LOOP"},
                      result : {NoResult}]
    /\ AuthIdle
    /\ RequestIdle
    /\ SessionIdle
    /\ ImageIdle
    /\ CallbacksIdle
    /\ PipelineIdle
    /\ RepairIdle
    /\ ParseIdle
    /\ RunsIdle
    /\ calc_args = NoResult
    /\ calc_result = NoResult
    /\ dec_payload = NoResult
    /\ total_days = Null
    /\ dec_result = NoResult

ItemsFrame ==
    UNCHANGED <<now, pc, pipelineVars, repairVars, calcVars, decVars, parseVars, runVars,
                callbackVars, authVars, requestVars, sessionVars, imageVars>>

\* one turn of `for item in analysis["items"]`; an exception of the
\* re-analysis ends execute_action in its except branch
ItemTurn ==
    \E existing \in ItemListings, detailed_analysis \in ItemAnalyses :
        /\ item_run # NoResult
        /\ item_run.at = "LOOP"
        /\ item_run.next <= Len(item_run.analysis.items)
        /\ LET item == item_run.analysis.items[item_run.next]
               asked == << Call("list_todos", NoDict),
                           Call("analyze_text_for_todos", [item |-> I(item_run.next)]) >>
           IN  item_run' =
                 IF ReanalysisRaises(detailed_analysis, existing)
                 THEN [item_run EXCEPT !.ops = @ \o asked, !.at = "DONE",
                                       !.result = "error" :> S("KeyError")]
                 ELSE [item_run EXCEPT
                          !.ops = @ \o asked \o
                                  << Call("create_todo",
                                          ItemCreateArgs(detailed_analysis, item)
                                              @@ [item |-> I(item_run.next)]) >>,
                          !.next = @ + 1]
        /\ ItemsFrame

\* return results
ItemsReturn ==
    /\ item_run # NoResult
    /\ item_run.at = "LOOP"
    /\ item_run.next > Len(item_run.analysis.items)
    /\ item_run' = [item_run EXCEPT !.at = "DONE", !.result = [results |-> item_run.next - 1]]
    /\ ItemsFrame

NextItems == ItemTurn \/ ItemsReturn

SpecItems == InitItems /\ [][NextItems]_vars

----------------------------------------------------------------------------
(* Properties of the extraction fallback *)

ExtractionDone == pc # "RECEIVED" /\ intent_analysis # NoResult

\* every attempt of the loop failed
AllAttemptsFailed == ExtractionDone /\ last \in {"exception", "nopayload"}

\* the first 30 characters of the user's text
First30 == T([i \in 1..(IF Len(text) < 30 THEN Len(text) ELSE 30) |-> text[i]])

\* C1 as stated: after 3 failed attempts the returned draft is exactly
\* {action: CREATE, title: text[:30], confidence: 0}, with no other field
C1_FallbackExactlyThreeFields ==
    AllAttemptsFailed =>
        /\ calls = 3
        /\ intent_analysis = [action |-> S("CREATE"), title |-> First30, confidence |-> I(0)]

\* C1 amended: after 3 failed attempts the returned draft has action CREATE,
\* the first 30 characters of the text as title and confidence 0; AIService
\* returns no other field, IntentMixin adds one fixed reasoning string
C1_FallbackDraft ==
    AllAttemptsFailed =>
        /\ calls = 3
        /\ intent_analysis["action"] = S("CREATE")
        /\ intent_analysis["title"] = First30
        /\ intent_analysis["confidence"] = I(0)
        /\ DOMAIN intent_analysis =
              {"action", "title", "confidence"}
                 \cup (IF impl = "IntentMixin" THEN {"reasoning"} ELSE {})
        /\ impl = "IntentMixin" => IsStr(intent_analysis["reasoning"])

C1_Witness ==
    /\ AllAttemptsFailed
    /\ impl = "IntentMixin"
    /\ Len(text) > 30
    /\ Len(intent_analysis["title"].t) = 30

----------------------------------------------------------------------------
(* Properties of the whole run of analyze_text_for_todos *)

PipelineEnded == pc \in {"RESOLVED", "RAISED", "EXECUTED", "HANDLER_ERROR"}

SecondCallIssued == match \in {"merged", "exception", "nopayload"}

\* C2 as stated: every run ends, after at most 3 + 1 remote calls, in
\* RESOLVED with a draft returned; no run is stuck or ends without a draft
C2_EndsResolvedWithDraft ==
    /\ calls <= 3
    /\ PipelineEnded => (pc # "RAISED" /\ returned # NoResult)
    /\ ~PipelineEnded => ENABLED PipelineNext

\* C3 as stated: no exception escapes analyze_text_for_todos, whatever the
\* payloads and whatever the entries of the listing contain
C3_NoExceptionEscapes == match # "prompt_raised"

----------------------------------------------------------------------------
(* Properties of the disambiguation merge *)

DateFields == {"due_date", "reminder_date", "reminder_time"}

Merged == match = "merged" /\ pc \in {"RESOLVED", "EXECUTED"}

\* C4 as stated: a field the second call returns as non-null overwrites the
\* draft's value, and a field it returns as null leaves the draft's value
\* unchanged (the date fields are left out of the first half, because they
\* are converted or repaired after the merge)
C4_NullLeavesDraftValue ==
    Merged =>
        \A k \in DOMAIN match_result :
            /\ (match_result[k] # Null /\ k \notin DateFields)
                   => Get(returned, k) = match_result[k]
            /\ (match_result[k] = Null /\ k \in DOMAIN intent_analysis)
                   => Get(returned, k) = intent_analysis[k]

\* C4 amended: the merge is dict.update: every field present in the payload
\* of the second call overwrites the draft's value, null included, and only
\* a field absent from the payload keeps the draft's value (stated for the
\* fields that are not converted or repaired after the merge; in AIService a
\* null due_date of the payload nulls the draft's due_date as well)
C4_PresentFieldsOverwrite ==
    Merged =>
        /\ DOMAIN returned = (DOMAIN intent_analysis) \cup (DOMAIN match_result)
                                 \cup (DOMAIN returned \cap DateFields)
        /\ \A k \in (DOMAIN returned) \ DateFields :
              returned[k] = IF k \in DOMAIN match_result THEN match_result[k]
                            ELSE Get(intent_analysis, k)
        /\ (impl = "AIService" /\ "due_date" \in DOMAIN match_result
               /\ match_result["due_date"] = Null)
              => Get(returned, "due_date") = Null

C4_Witness ==
    /\ Merged
    /\ "title" \in DOMAIN match_result
    /\ match_result["title"] = Null
    /\ Truthy(Get(intent_analysis, "title"))
    /\ Get(returned, "title") = Null

\* the second call returned the candidate's id and a reminder hour of 14,
\* every other field null
OnlyReminderHour(m) ==
    /\ Get(m, "todo_id") = S("t1")
    /\ Get(m, "reminder_in_hours") = I(14)
    /\ {"title", "due_in_days", "reminder_in_days", "reminder_in_minutes"} \subseteq DOMAIN m
    /\ \A k \in (DOMAIN m) \ {"todo_id", "reminder_in_hours", "confidence"} : m[k] = Null

ScenarioC ==
    /\ Merged
    /\ impl = "IntentMixin"
    /\ Get(intent_analysis, "action") = S("UPDATE")
    /\ ~Truthy(Get(intent_analysis, "todo_id"))
    /\ Len(Candidates(existing_todos)) = 1
    /\ Get(Candidates(existing_todos)[1], "id") = S("t1")
    /\ Truthy(Get(Candidates(existing_todos)[1], "dueDateTime"))
    /\ OnlyReminderHour(match_result)

C6_FailureReturnsExtractionDraft ==
    (pc \in {"RESOLVED", "EXECUTED"} /\ match \in {"nocandidates", "exception", "nopayload"})
        => returned = intent_analysis

C6_Witness ==
    /\ pc = "RESOLVED"
    /\ match = "nopayload"
    /\ Get(intent_analysis, "action") = S("UPDATE")
    /\ "todo_id" \notin DOMAIN returned
    /\ returned = intent_analysis

\* C7: the second call is issued only for an UPDATE, COMPLETE or DELETE
\* draft that carries no todo_id
C7_SecondCallOnlyForUnresolvedMutation ==
    (pc = "DISAMBIGUATING" \/ SecondCallIssued \/ match = "prompt_raised") =>
        /\ Get(intent_analysis, "action") \in {S("UPDATE"), S("COMPLETE"), S("DELETE")}
        /\ ~Truthy(Get(intent_analysis, "todo_id"))

C7_Witness ==
    /\ SecondCallIssued
    /\ Get(intent_analysis, "action") = S("DELETE")
    /\ "todo_id" \notin DOMAIN intent_analysis

----------------------------------------------------------------------------
(* Properties of the execution of a draft *)

MutatingOps == {"update_todo", "complete_todo", "delete_todo"}

Mutations == { i \in 1..Len(store_ops) : store_ops[i].op \in MutatingOps }

UnresolvedMutationDraft ==
    /\ Get(returned, "action") \in {S("UPDATE"), S("COMPLETE"), S("DELETE")}
    /\ ~Truthy(Get(returned, "todo_id"))
    /\ match \in {"nocandidates", "exception", "nopayload"}

\* C8 as stated: a mutation draft that leaves the pipeline without todo_id
\* makes execute_action perform no update_todo, complete_todo or delete_todo
C8_NoMutationForUnresolvedDraft ==
    (pc = "EXECUTED" /\ UnresolvedMutationDraft) => Mutations = {}

\* C8 amended: every update_todo, complete_todo and delete_todo carries a
\* non-empty identifier, which is the draft's todo_id or, for a draft without
\* one, the id of the first hit of the title search execute_action made just
\* before; without such an id nothing is mutated
C8_MutationCarriesDraftOrFirstHitId ==
    pc = "EXECUTED" =>
        /\ \A i \in Mutations :
              LET id == Get(store_ops[i].args, "todo_id") IN
              /\ Truthy(id)
              /\ IF Truthy(Get(returned, "todo_id"))
                 THEN id = returned["todo_id"] /\ i = 1
                 ELSE /\ i = 2
                      /\ store_ops[1].op = "search_todos_by_title"
                      /\ search_results # <<>>
                      /\ id = Get(search_results[1], "id")
        /\ (/\ ~Truthy(Get(returned, "todo_id"))
            /\ \/ search_results = <<>>
               \/ ~Truthy(Get(search_results[1], "id")))
              => Mutations = {}

C8_Witness ==
    /\ pc = "EXECUTED"
    /\ UnresolvedMutationDraft
    /\ Get(returned, "action") = S("DELETE")
    /\ Len(search_results) = 2
    /\ Len(store_ops) = 2
    /\ store_ops[2] = Call("delete_todo", [todo_id |-> S("t1")])

----------------------------------------------------------------------------
(* Properties of the returned draft's dates *)

\* a due_date that parses is not earlier than today
DueNotPast(d) ==
    ParseDate(Get(d, "due_date")) # ParseFail
        => ParseDate(Get(d, "due_date")) >= DayOf(now)

\* a reminder date and time that both parse denote an instant after now
ReminderInFuture(d) ==
    (/\ ParseDate(Get(d, "reminder_date")) # ParseFail
     /\ ParseTime(Get(d, "reminder_time")) # ParseFail)
        => At(ParseDate(Get(d, "reminder_date")), ParseTime(Get(d, "reminder_time"))) > now

\* C9 as stated: in every draft analyze_text_for_todos returns, a present
\* due_date is not earlier than today and a present reminder date and time
\* denote an instant strictly after now
C9_ReturnedDraftIsRepaired ==
    pc \in {"RESOLVED", "EXECUTED"} =>
        /\ DueNotPast(returned)
        /\ ReminderInFuture(returned)

----------------------------------------------------------------------------
(* Properties of the due-date repair *)

DueIn == ParseDate(Get(draft_in, "due_date"))

Tomorrow == S(DateStr(DayOf(now) + 1))

\* C10 as stated: every repair replaces a due_date that parses and is before
\* today by tomorrow's date and leaves one on or after today unchanged
C10_EveryRepairRollsPastDueDate ==
    (pc \in {"FIXED", "NORMALIZED"} /\ DueIn # ParseFail) =>
        Get(draft_out, "due_date") = IF DueIn < DayOf(now) THEN Tomorrow
                                     ELSE draft_in["due_date"]

\* C10 amended: _validate_and_fix_dates replaces a due_date that parses and
\* is before today by tomorrow's date; normalize_due_date does so only when
\* it is called with auto_adjust, and otherwise returns the past date as it
\* is; both leave a due_date on or after today unchanged
C10_PastDueDateRolledWhenAdjusting ==
    (pc \in {"FIXED", "NORMALIZED"} /\ DueIn # ParseFail) =>
        Get(draft_out, "due_date") =
            IF DueIn < DayOf(now) /\ (pc = "FIXED" \/ auto_adjust) THEN Tomorrow
            ELSE draft_in["due_date"]

C10_Witness ==
    /\ pc = "FIXED"
    /\ DueIn # ParseFail
    /\ DueIn < DayOf(now)
    /\ draft_out["due_date"] = Tomorrow
    /\ draft_out["due_date"] # draft_in["due_date"]

----------------------------------------------------------------------------
(* Properties of the reminder repair *)

\* the instant the draft's reminder date and time denote, when both parse
ReminderInstant(d) ==
    IF /\ ParseDate(Get(d, "reminder_date")) # ParseFail
       /\ ParseTime(Get(d, "reminder_time")) # ParseFail
    THEN At(ParseDate(d["reminder_date"]), ParseTime(d["reminder_time"]))
    ELSE ParseFail

PastReminderIn == ReminderInstant(draft_in) # ParseFail /\ ReminderInstant(draft_in) <= now

HalfHourLater ==
    /\ Get(draft_out, "reminder_date") = S(DateOfInstant(now + 30))
    /\ Get(draft_out, "reminder_time") = S(TimeOfInstant(now + 30))
    /\ ReminderInstant(draft_out) = now + 30

\* C11 as stated: every repair replaces a reminder that parses to an instant
\* at or before now by now + 30 minutes, date and time split consistently
C11_EveryRepairMovesPastReminder ==
    (pc \in {"FIXED", "NORMALIZED"} /\ PastReminderIn) => HalfHourLater

\* C11 amended: _validate_and_fix_dates replaces a reminder at or before now
\* by the date and the time of now + 30 minutes, also across midnight;
\* normalize_reminder does so only when it is called with auto_adjust, and
\* otherwise returns the past date and time as they are
C11_PastReminderMovedWhenAdjusting ==
    (pc \in {"FIXED", "NORMALIZED"} /\ PastReminderIn) =>
        IF pc = "FIXED" \/ auto_adjust
        THEN HalfHourLater /\ ReminderInstant(draft_out) > now
        ELSE /\ Get(draft_out, "reminder_date") = draft_in["reminder_date"]
             /\ Get(draft_out, "reminder_time") = draft_in["reminder_time"]

C11_Witness ==
    /\ pc = "FIXED"
    /\ PastReminderIn
    /\ DayOf(now + 30) = DayOf(now) + 1
    /\ draft_out["reminder_date"] = Tomorrow
    /\ ReminderInstant(draft_out) > now

\* C12 as stated: applying _validate_and_fix_dates a second time with the
\* same now to a repaired draft changes no field
C12_RepairIsIdempotent ==
    pc = "FIXED_AGAIN" => draft_again = draft_out

MalformedLeft(d) ==
    \/ Truthy(Get(d, "due_date")) /\ ParseDate(d["due_date"]) = ParseFail
    \/ Truthy(Get(d, "reminder_date")) /\ ParseDate(d["reminder_date"]) = ParseFail
    \/ Truthy(Get(d, "reminder_time")) /\ ParseTime(d["reminder_time"]) = ParseFail

\* C13 as stated: after repair no due_date, reminder_date or reminder_time
\* that fails to parse remains in the draft
C13_NoMalformedValueRemains ==
    pc \in {"FIXED", "NORMALIZED"} => ~MalformedLeft(draft_out)

----------------------------------------------------------------------------
(* Properties of the temporal calculator *)

\* C14: for days >= 0, hours in 0..23 and minutes in 0..59 the calculator
\* returns the date of now plus days and the time hours:minutes, whatever
\* the time of day of now is
C14_AbsoluteHourOnTargetDay ==
    pc = "COMPUTED" =>
        /\ ParseDate(S(calc_result[1])) = DayOf(now) + calc_args.days
        /\ ParseTime(S(calc_result[2])) = calc_args.hours * 60 + calc_args.minutes
        /\ \A n \in NowValues :
              DayOf(n) = DayOf(now) =>
                  calculate_relative_time(n, I(calc_args.days), I(calc_args.hours),
                                          I(calc_args.minutes)) = calc_result

C14_Witness ==
    /\ pc = "COMPUTED"
    /\ MinuteOf(now) > 23 * 60
    /\ calc_args = [days |-> 1, hours |-> 9, minutes |-> 30]
    /\ calc_result = << DateStr(Today + 1), "09:30" >>

\* C15 as stated: the calculator is never called with a negative day offset
C15_NoNegativeDayOffsetReachesCalculator ==
    \A d \in calc_days : d >= 0

----------------------------------------------------------------------------
(* Properties of the retry loop of _analyze_intent *)

\* C16: one _analyze_intent issues between 1 and 3 remote calls; an
\* exception and a response without payload each use up one attempt of the
\* same budget, the first payload ends the loop, and no call follows the end
C16_OneToThreeCalls ==
    /\ [](/\ pc = "RECEIVED" => (last # "payload" /\ calls = attempt /\ attempt <= max_retries)
          /\ ExtractionDone =>
                /\ calls \in 1..(max_retries + 1)
                /\ last = "payload" => calls = attempt + 1
                /\ last # "payload" => (calls = max_retries + 1 /\ attempt = max_retries))
    /\ [][/\ pc # "RECEIVED" => calls' = calls
          /\ pc = "RECEIVED" => calls' = calls + 1]_vars

C16_Witness ==
    /\ ExtractionDone
    /\ last = "payload"
    /\ attempt = 1
    /\ calls = 2
    /\ sleeps \in {0, 1}

----------------------------------------------------------------------------
(* Properties of the decomposition *)

\* the service answered the three offsets of the example, 2, 1 and 3
ExampleOffsets ==
    /\ Len(dec_payload.subtasks) = 3
    /\ \A i \in 1..3 : Get(dec_payload.subtasks[i], "due_in_days") = I(<<2, 1, 3>>[i])

\* subtask i is due on now's date plus the offsets of the subtasks up to i
CumulativeDueDates(subtasks) ==
    \A i \in 1..Len(subtasks) :
        Get(dec_payload.subtasks[i], "due_in_days") # Null =>
            ParseDate(Get(subtasks[i], "due_date"))
                = DayOf(now) + accumulated_days(dec_payload.subtasks, i)

\* C17 as stated: decompose_task returns the subtasks with due dates that
\* accumulate the offsets, now+2d, now+3d and now+6d for offsets 2, 1, 3
C17_DecomposeTaskAccumulatesOffsets ==
    (pc = "DECOMPOSED" /\ ExampleOffsets) =>
        /\ "subtasks" \in DOMAIN dec_result
        /\ CumulativeDueDates(dec_result.subtasks)
        /\ \A i \in 1..3 :
              Get(dec_result.subtasks[i], "due_date") = S(DateStr(DayOf(now) + <<2, 3, 6>>[i]))

\* the offsets of the subtasks that carry one, summed
OffsetSum == accumulated_days(dec_payload.subtasks, Len(dec_payload.subtasks))

HandlerDone == pc \in {"EXECUTED", "HANDLER_ERROR"}

\* C19 as stated: a handle_text run whose decomposition fails still ends
\* with a task created for the original text and a response, not an error
C19_FailedDecompositionStillCreates ==
    (HandlerDone /\ gate = "fired") =>
        /\ reply = "response"
        /\ \E i \in 1..Len(store_ops) : store_ops[i].op = "create_todo"

HasLexiconTerm == \E pattern \in COMPLEX_TASK_PATTERNS : Contains(Lower(text), pattern)

----------------------------------------------------------------------------
(* Properties of the remote calls of one run *)

C23_ActionAlwaysInFixedSet ==
    ExtractionDone =>
        /\ "action" \in DOMAIN intent_analysis
        /\ intent_analysis["action"] \in { S(a) : a \in Actions }

\* C24 as stated: the path handle_text takes for the returned draft is the
\* path it takes for the same draft with any other confidence
C24_ConfidenceNeverBranches ==
    (HandlerDone /\ gate \in {"passed", "fired"}) =>
        \A c \in {ConfidenceThreshold - 1, ConfidenceThreshold} :
            _should_suggest_decompose(text, DictSet(returned, "confidence", I(c)))
                = (gate = "fired")

\* C26 as stated: the prompt of the disambiguation call lists at most 10
\* candidates
C26_AtMostTenCandidatesSent ==
    SecondCallIssued =>
        Len(CandidatesSent(impl, Candidates(existing_todos))) <= CandidateLimit

\* C28 as stated: a handle_text run that got a draft from the analysis
\* calls execute_action on it exactly once
C28_DraftExecutedExactlyOnce ==
    (HandlerDone /\ returned # NoResult) => executions = 1

\* C29 as stated: every extraction attempt after the first was preceded by
\* one backoff wait, whatever ended the attempt before it
C29_BackoffBeforeEveryRetry ==
    /\ pc = "RECEIVED" => sleeps = attempt
    /\ ExtractionDone => sleeps = calls - 1

----------------------------------------------------------------------------
(* Properties of the update request *)

\* the field of the draft that a key of the PATCH body is made of
DraftFieldOf ==
    [title |-> "title", body |-> "description", dueDateTime |-> "due_date",
     reminderDateTime |-> "reminder_date"]

\* C27: the PATCH request of an executed UPDATE draft carries nothing but
\* keys made of fields that are non-empty in the draft; a field that is
\* absent or null in the draft is in no request, and neither is the status
C27_UpdateSendsOnlyNonEmptyFields ==
    pc = "EXECUTED" =>
        \A i \in 1..Len(patches) :
            \A k \in DOMAIN patches[i] :
                /\ k \in DOMAIN DraftFieldOf
                /\ Truthy(Get(returned, DraftFieldOf[k]))

\* an UPDATE that renames the task and says nothing about its dates
C27_Witness ==
    /\ pc = "EXECUTED"
    /\ Get(returned, "action") = S("UPDATE")
    /\ Len(patches) = 1
    /\ DOMAIN patches[1] = {"title"}
    /\ "due_date" \notin DOMAIN returned
    /\ Get(returned, "reminder_date") = Null

----------------------------------------------------------------------------
(* Properties of _robust_json_parse *)

Strategies == <<"direct", "object", "quotes">>

\* what strategy k makes of the content, computed on its own
StrategyResult(k) ==
    LET cleaned == StripFence(content.t)
    IN  IF k = 1 THEN Loads(cleaned)
        ELSE IF k = 2 THEN Loads(RegexSearch(cleaned))
        ELSE Loads(FixQuotes(cleaned))

\* C25: on a string the strategies run in the order direct parse, first
\* brace-delimited object, quote repair; the call returns the object of the
\* first strategy that succeeds, tries none after it, and returns None
\* without raising when all three fail
C25_StrategiesInOrderFirstSuccessWins ==
    /\ tried = SubSeq(Strategies, 1, Len(tried))
    /\ pc = "PARSE_RAISED" => content = Null
    /\ pc = "PARSED" =>
          /\ StrategyResult(Len(tried)).ok
          /\ parsed = StrategyResult(Len(tried)).obj
          /\ \A k \in 1..(Len(tried) - 1) : ~StrategyResult(k).ok
    /\ pc = "NONE" =>
          /\ tried = Strategies
          /\ parsed = Null
          /\ \A k \in 1..3 : ~StrategyResult(k).ok

\* prose around an object: the direct parse fails and the pattern finds
\* the object
C25_Witness ==
    /\ pc = "PARSED"
    /\ content = T(<<"w", "{", "d", "}", "w">>)
    /\ tried = <<"direct", "object">>
    /\ parsed = <<"{", "d", "}">>

----------------------------------------------------------------------------
(* Properties of concurrent runs *)

----------------------------------------------------------------------------
(* Properties of the decomposition callbacks *)

Creations(what) == { i \in 1..Len(created) : created[i].what = what }

----------------------------------------------------------------------------
(* Properties of the decomposition session *)

----------------------------------------------------------------------------
(* Properties of the permission checks *)

\* C32: when check_permission denies the sender, handle_text and handle_photo
\* issue no model call and no task-store call, and nothing else either: the
\* check comes before every other effect of the handler.
C32_DeniedSenderCausesNoCall ==
    (/\ effects # NoResult
     /\ effects.handler \in {"handle_text", "handle_photo"}
     /\ ~effects.allowed)
        => effects.calls = <<>>

\* a whitelisted user whose message was denied by the rate limiter
C32_Witness ==
    /\ effects # NoResult
    /\ effects.handler = "handle_text"
    /\ ~effects.allowed
    /\ effects.user \in whitelist \ blacklist
    /\ Len(user_requests[effects.user]) = rate_limit_max_requests

\* C33: a callback query of a caller who is no admin, a whitelisted user
\* included, issues no task-store call and leaves the stored decompositions
\* as they are; only an admin's callback does either.
C33_OnlyAdminCallbacksAct ==
    [][(/\ effects' # NoResult
        /\ effects'.handler = "handle_callback_query"
        /\ ~is_admin(effects'.user))
           => (/\ effects'.calls = <<>>
               /\ pending_decompose' = pending_decompose)]_vars

\* the callback of a whitelisted user who has a stored decomposition was refused
C33_Witness ==
    /\ effects # NoResult
    /\ effects.handler = "handle_callback_query"
    /\ ~effects.allowed
    /\ effects.user \in whitelist \ blacklist
    /\ effects.user \in DOMAIN pending_decompose

\* C35: whatever blacklist and whitelist operations were applied, no admin
\* id is in the blacklist, and so has_permission holds for every admin.
C35_AdminNeverBlacklisted ==
    /\ blacklist \cap admin_ids = {}
    /\ \A user_id \in admin_ids : has_permission(user_id)

\* add_to_blacklist was asked to take an admin and refused, next to a
\* blacklist that holds another user
C35_Witness ==
    /\ effects # NoResult
    /\ effects.handler = "add_to_blacklist"
    /\ effects.user \in admin_ids
    /\ ~effects.allowed
    /\ blacklist # {}

\* the timestamps the rate limiter recorded for the user that are younger
\* than one window at time t
Fresh(user_id, t) ==
    LET mine == SelectSeq(admitted, LAMBDA a : a.user = user_id
                                               /\ t - a.at < rate_limit_window)
    IN  [i \in 1..Len(mine) |-> mine[i].at]

\* how many requests of the user were admitted in the window that starts at t
AdmittedIn(user_id, t) ==
    Cardinality({ i \in 1..Len(admitted) :
                     /\ admitted[i].user = user_id
                     /\ t <= admitted[i].at
                     /\ admitted[i].at < t + rate_limit_window })

\* C34: for a user who is no admin the recorded list never holds more than
\* rate_limit_max_requests entries; right after a check it is exactly the
\* admitted requests younger than rate_limit_window, so a rejected request
\* is not in it; no window holds more than rate_limit_max_requests admitted
\* requests; and the check of an admin is never rejected nor recorded.
C34_RateLimitWindow ==
    /\ \A user_id \in DOMAIN user_requests :
          /\ ~is_admin(user_id)
          /\ Len(user_requests[user_id]) <= rate_limit_max_requests
          /\ \A t \in 0..clock : AdmittedIn(user_id, t) <= rate_limit_max_requests
    /\ (effects # NoResult /\ effects.at = clock /\ ~is_admin(effects.user))
          => /\ user_requests[effects.user] = Fresh(effects.user, clock)
             /\ \A i \in DOMAIN user_requests[effects.user] :
                   clock - user_requests[effects.user][i] < rate_limit_window
    /\ (effects # NoResult /\ is_admin(effects.user)) => effects.allowed

\* a request was rejected next to a full list whose entries come from two
\* instants
C34_Witness ==
    /\ effects # NoResult
    /\ effects.at = clock
    /\ ~effects.allowed
    /\ Len(user_requests[effects.user]) = rate_limit_max_requests
    /\ user_requests[effects.user][1] # user_requests[effects.user][rate_limit_max_requests]

----------------------------------------------------------------------------
(* Properties of the Graph request *)

\* the requests among the HTTP exchanges of the call
Sends == SelectSeq(http, LAMBDA h : h.call = "request")

\* C36: one call of _make_request sends the request at most twice and tries
\* at most one refresh; it sends a second time only after a 401 and a
\* refresh that succeeded; a 401 on the second send ends the call with an
\* error result; and the call ends with a result.
C36_AtMostOneRefreshAndResend ==
    /\ [](/\ Len(Sends) <= 2
          /\ request.refreshes <= 1
          /\ Len(Sends) = 2 =>
                /\ Sends[1].status = 401
                /\ request.refreshes = 1
                /\ credentials.access_token = S("new")
          /\ (Len(Sends) = 2 /\ Sends[2].status = 401) =>
                /\ request.at = "DONE"
                /\ "error" \in DOMAIN request.result)
    /\ <>(request.at = "DONE" /\ request.result # NoResult)

\* the resend was answered by a 401 again
C36_Witness ==
    /\ Len(Sends) = 2
    /\ Sends[2].status = 401
    /\ request.at = "DONE"

----------------------------------------------------------------------------
(* Properties of the authorization sessions *)

\* C37 as stated: every authorization session that was opened is removed in
\* the end, by an exchange or by the cleanup, so that the texts of its user
\* do not go to the auth-code handler forever.
C37_SessionEventuallyRemoved ==
    \A user_id \in Users :
        (user_id \in DOMAIN pending_auth) ~> (user_id \notin DOMAIN pending_auth)

----------------------------------------------------------------------------
(* Properties of the image analysis *)

----------------------------------------------------------------------------
(* Properties of the creation of items *)

\* the create_todo calls among the calls of the run
ItemCreates == SelectSeq(item_run.ops, LAMBDA c : c.op = "create_todo")

\* C39 as stated: for a CREATE draft with items execute_action issues one
\* create_todo for every item, in the order of the list, and no update,
\* complete or delete, whatever the re-analysis of an item returns.
C39_OneCreatePerItemInOrder ==
    item_run.at = "DONE" =>
        /\ Len(ItemCreates) = Len(item_run.analysis.items)
        /\ \A i \in 1..Len(ItemCreates) : ItemCreates[i].args.item = I(i)
        /\ \A i \in 1..Len(item_run.ops) :
              item_run.ops[i].op \notin {"update_todo", "complete_todo", "delete_todo"}

====
